---- MODULE Spec2Model ----
\* Payment-processing consistency engine of gigmile-test:
\* the Customer aggregate, the two-tier payment dedup gate, the optimistic
\* conditional write of the customer row, the cache-aside customer cache and
\* the fire-and-forget event publication, driven by concurrent ProcessPayment
\* calls.  Every store operation (one Redis command, one SQL statement) is one
\* atomic step; the in-memory code between two store operations belongs to the
\* step of the store operation that precedes it.
EXTENDS Integers, Naturals, Sequences, FiniteSets, Bags, TLC

\* ---------------------------------------------------------------- bounds
\* Asset value of the seeded customer, scaled down from 100000000 kobo.
AssetValue == 3
\* Total number of ProcessPayment calls started in one behaviour.
MaxCalls == 2
\* Entries appended to the event streams.
MaxEntries == 3
\* Deliveries of one entry on which the handler may fail before it succeeds.
MaxHandlerFailures == 1

\* Request goroutines that may run ProcessPayment concurrently.
Procs == {"p1", "p2"}
\* Customer ids that have a row in the customers table (seeded).
Customers == {"c1"}
\* Customer ids a request may carry: a seeded one and an unknown one.
CustomerIDs == {"c1", "c9"}
\* Transaction references (idempotency keys) a request may carry.
Refs == {"r1", "r2", "r3"}
\* Payment statuses a notification may carry.
Statuses == {"COMPLETE", "PENDING"}
\* The amount (minor units) and the date each reference's notification carries:
\* a redelivery of a reference repeats them (0 stands for the nil LastPaymentDate).
\* r1 and r2 are instalments, r3 pays the whole asset at once.
AmountOf == [r \in Refs |-> IF r = "r1" THEN 1 ELSE IF r = "r2" THEN 2 ELSE AssetValue]
DateOf == [r \in Refs |-> IF r = "r1" THEN 1 ELSE 2]

NoCustomer == [id |-> "none"]
NoRequest == [ref |-> "none"]

\* ------------------------------------------------------- domain: Customer
NewCustomer(id, assetValue) ==
    [id |-> id, bal |-> assetValue, paid |-> 0, last |-> 0,
     status |-> "ACTIVE", ver |-> 1]

ApplyPaymentNoClamp(c, amount, date) ==
    IF amount <= 0 THEN [err |-> "ErrInvalidAmount", c |-> c]
    ELSE IF c.status = "COMPLETED" THEN [err |-> "ErrAssetAlreadyOwned", c |-> c]
    ELSE LET c1 == [c EXCEPT !.bal = c.bal - amount, !.paid = c.paid + amount,
                             !.last = date]
         IN  [err |-> "nil",
              c   |-> IF c1.bal = 0 THEN [c1 EXCEPT !.status = "COMPLETED"] ELSE c1]

ApplyPaymentNoComplete(c, amount, date) ==
    IF amount <= 0 THEN [err |-> "ErrInvalidAmount", c |-> c]
    ELSE IF c.status = "COMPLETED" THEN [err |-> "ErrAssetAlreadyOwned", c |-> c]
    ELSE LET newBalance == IF c.bal - amount < 0 THEN 0 ELSE c.bal - amount
         IN  [err |-> "nil",
              c   |-> [c EXCEPT !.bal = newBalance, !.paid = c.paid + amount,
                                !.last = date]]

ApplyPaymentClampedTotal(c, amount, date) ==
    IF amount <= 0 THEN [err |-> "ErrInvalidAmount", c |-> c]
    ELSE IF c.status = "COMPLETED" THEN [err |-> "ErrAssetAlreadyOwned", c |-> c]
    ELSE LET newBalance == IF c.bal - amount < 0 THEN 0 ELSE c.bal - amount
             c1 == [c EXCEPT !.bal = newBalance, !.paid = c.paid + (c.bal - newBalance),
                             !.last = date]
         IN  [err |-> "nil",
              c   |-> IF c1.bal = 0 THEN [c1 EXCEPT !.status = "COMPLETED"] ELSE c1]

ApplyPaymentBumpsVersion(c, amount, date) ==
    IF amount <= 0 THEN [err |-> "ErrInvalidAmount", c |-> c]
    ELSE IF c.status = "COMPLETED" THEN [err |-> "ErrAssetAlreadyOwned", c |-> c]
    ELSE LET newBalance == IF c.bal - amount < 0 THEN 0 ELSE c.bal - amount
             c1 == [c EXCEPT !.bal = newBalance, !.paid = c.paid + amount, !.last = date,
                             !.ver = c.ver + 1]
         IN  [err |-> "nil",
              c   |-> IF c1.bal = 0 THEN [c1 EXCEPT !.status = "COMPLETED"] ELSE c1]

\* Customer.ApplyPayment: the error it returns and the customer afterwards.
ApplyPayment(c, amount, date) ==
    IF amount <= 0 THEN [err |-> "ErrInvalidAmount", c |-> c]
    ELSE IF c.status = "COMPLETED" THEN [err |-> "ErrAssetAlreadyOwned", c |-> c]
    ELSE LET newBalance == IF c.bal - amount < 0 THEN 0 ELSE c.bal - amount
             c1 == [c EXCEPT !.bal = newBalance, !.paid = c.paid + amount, !.last = date]
         IN  [err |-> "nil",
              c   |-> IF c1.bal = 0 THEN [c1 EXCEPT !.status = "COMPLETED"] ELSE c1]

IsFullyPaid(c) == c.bal = 0 \/ c.status = "COMPLETED"

\* What json.Marshal can read from a *Customer that another goroutine takes
\* from a to b meanwhile, without synchronisation: each field is the old or
\* the new one.
TornReads(a, b) ==
    {[id |-> a.id, bal |-> w.bal, paid |-> x.paid, last |-> y.last,
      status |-> z.status, ver |-> v.ver] : w, x, y, z, v \in {a, b}}

\* ------------------------------------------------------------ SQL tables
ToDomainNoVersion(m) ==
    [id |-> m.id, bal |-> m.bal, paid |-> m.paid, last |-> m.last,
     status |-> m.status, ver |-> 0]

\* CustomerModel.ToDomain: the domain entity built from a row, field by field.
ToDomain(m) ==
    [id |-> m.id, bal |-> m.bal, paid |-> m.paid, last |-> m.last,
     status |-> m.status, ver |-> m.ver]

DbSelectCustomerZeroRow(rows, id) ==
    IF id \in DOMAIN rows THEN rows[id]
    ELSE [id |-> id, bal |-> 0, paid |-> 0, last |-> 0, status |-> "", ver |-> 0]

\* SELECT * FROM customers WHERE id = ? LIMIT 1 (First): the row, or NoCustomer
\* for gorm.ErrRecordNotFound.
DbSelectCustomer(rows, id) ==
    IF id \in DOMAIN rows THEN rows[id] ELSE NoCustomer

DbUpdateCustomerNoVersionCheck(rows, c) ==
    IF c.id \in DOMAIN rows
    THEN [rows |-> [rows EXCEPT ![c.id] =
                      [@ EXCEPT !.bal = c.bal, !.paid = c.paid, !.last = c.last,
                                !.status = c.status, !.ver = @ + 1]],
          affected |-> 1]
    ELSE [rows |-> rows, affected |-> 0]

\* UPDATE customers SET outstanding_balance = outstanding_balance - ?,
\* total_paid = total_paid + ?, version = version + 1 WHERE id = ? AND version = ?
DbUpdateBalance(rows, id, amount, version) ==
    IF id \in DOMAIN rows /\ rows[id].ver = version
    THEN [rows |-> [rows EXCEPT ![id] =
                      [@ EXCEPT !.bal = @ - amount, !.paid = @ + amount,
                                !.ver = @ + 1]],
          affected |-> 1]
    ELSE [rows |-> rows, affected |-> 0]

\* UPDATE customers SET ..., version = version + 1 WHERE id = ? AND version = ?
DbUpdateCustomer(rows, c) ==
    IF c.id \in DOMAIN rows /\ rows[c.id].ver = c.ver
    THEN [rows |-> [rows EXCEPT ![c.id] =
                      [@ EXCEPT !.bal = c.bal, !.paid = c.paid, !.last = c.last,
                                !.status = c.status, !.ver = @ + 1]],
          affected |-> 1]
    ELSE [rows |-> rows, affected |-> 0]

DbInsertPaymentNoUniqueIndex(rows, pay) ==
    [rows |-> Append(rows, pay), err |-> "nil"]

\* INSERT INTO payments, transaction_reference carrying a unique index.
DbInsertPayment(rows, pay) ==
    IF \E i \in 1..Len(rows) : rows[i].ref = pay.ref
    THEN [rows |-> rows, err |-> "ErrDuplicateTransaction"]
    ELSE [rows |-> Append(rows, pay), err |-> "nil"]

DbCountPaymentsNone(rows, ref) == 0

DbCountPaymentsAnyRow(rows, ref) == Len(rows)

\* SELECT COUNT(*) FROM payments WHERE transaction_reference = ?
DbCountPayments(rows, ref) ==
    Cardinality({i \in 1..Len(rows) : rows[i].ref = ref})

\* NewPayment: the payment entity built from the request.
NewPayment(r) == [ref |-> r.ref, cust |-> r.cust, amount |-> r.amount]

\* ----------------------------------------------------------------- state
VARIABLES
    dbCustomers,     \* customers table: id -> row
    dbPayments,      \* payments table: sequence of rows
    cacheCustomers,  \* Redis customer:<id> entries: id -> snapshot or NoCustomer
    fastRefs,        \* Redis payment:<ref> keys
    cacheTasks,      \* bag of pending `go redisRepo.Save(customer)` goroutines: the
                     \* goroutine whose call still holds the *Customer (or "none")
                     \* and the values a read of that struct can have returned
    backfillTasks,   \* bag of pending `go redisRepo.Save(payment)` goroutines
    pubTasks,        \* bag of pending publishPaymentProcessedEvent goroutines
    events,          \* stream events:payment.processed
    eventPublisher,  \* the service's eventPublisher field: "redis", or "nil" when
                     \* the service was built without a publisher
    pc,              \* position of each request goroutine in ProcessPayment
    req,             \* the request each goroutine is processing
    cust,            \* the *domain.Customer each goroutine holds
    phase,           \* which FindByID/Save round the call is in: dup, first, retry
    result,          \* what the call returned
    calls,           \* number of calls each goroutine has started so far
    saves,           \* history: conditional updates issued by the current call
    commits,         \* history: conditional updates of the current call that committed
    wrote,           \* history: the row the current call's committed update wrote
    payRes,          \* history: what paymentRepo.Save returned to the current call
    priorOk,         \* history: at its start, a call with its reference had returned success
    okRefs,          \* history: references of calls that returned success:true
    committedRefs,   \* history: bag of references whose balance write committed
    committedSum,    \* history: sum of the amounts of the committed balance writes
    raced,           \* history: the current call ran while another call was in flight
    ownedAtStart,    \* history: at its start the customer's row had status COMPLETED
    streamGroup,     \* consumer group payment-processors on the event streams: the
                     \* entries delivered so far, its pending list, and (history)
                     \* the entries acknowledged
    subscriber,      \* the worker's RedisEventSubscriber: its handlers, its position
                     \* in processEvents, the batch XReadGroup returned, and
                     \* (history) what handleMessage returned for each entry
    query            \* a call of GetCustomerPayments: position, results and history

stores == <<dbCustomers, dbPayments, cacheCustomers, fastRefs,
            cacheTasks, backfillTasks, pubTasks, events>>
locals == <<pc, req, cust, phase, result, calls>>
history == <<saves, commits, wrote, payRes, priorOk, okRefs, committedRefs, committedSum,
             raced>>
vars == <<dbCustomers, dbPayments, cacheCustomers, fastRefs,
          cacheTasks, backfillTasks, pubTasks, events, eventPublisher,
          pc, req, cust, phase, result, calls,
          saves, commits, wrote, payRes, priorOk, okRefs, committedRefs, committedSum,
          raced, ownedAtStart, streamGroup, subscriber, query>>
\* The variables ProcessPayment and its goroutines never touch.
sideVars == <<streamGroup, subscriber, query>>

\* service.ProcessPaymentRequest
Request(c, st, r) ==
    [cust |-> c, status |-> st, amount |-> AmountOf[r], date |-> DateOf[r], ref |-> r]

\* The notifications a behaviour draws from: the two instalments as COMPLETE
\* payments of the seeded customer, and the first one also as a PENDING
\* notification and as a notification for a customer id that has no row.
Requests ==
    {Request(c, "COMPLETE", r) : c \in Customers, r \in {"r1", "r2"}}
        \cup {Request(c, st, "r1") : c \in CustomerIDs, st \in Statuses}

\* The notification that pays the whole asset value at once.
PayoffRequests == {Request(c, "COMPLETE", "r3") : c \in Customers}

\* service.ProcessPaymentResponse, or the error returned in its place.
NoResult == [kind |-> "none"]
ErrResult(e) == [kind |-> "error", err |-> e]
Response(ok, msg, c) ==
    [kind |-> "response", success |-> ok, message |-> msg,
     bal |-> c.bal, paid |-> c.paid, fullyPaid |-> IsFullyPaid(c)]
NotCompleteResponse(st) ==
    [kind |-> "response", success |-> FALSE,
     message |-> "payment status is " \o st \o ", not COMPLETE",
     bal |-> 0, paid |-> 0, fullyPaid |-> FALSE]

\* The state after the migrations seeded the customer and NewPaymentService
\* built the service with the given publisher.
\* Rows the payments table can hold in a query run.
MaxPayments == 3
\* Calls of GetCustomerPayments in a query run.
MaxQueries == 2

\* A Go slice of payments: nil, or the items in order.
NilList == [nil |-> TRUE, items |-> <<>>]
List(items) == [nil |-> FALSE, items |-> items]

\* SELECT * FROM payments WHERE customer_id = ? ORDER BY transaction_date
\* DESC: every order of the customer's rows the database may answer with
\* (rows of equal date in any order).
FindByCustomerID(rows, id) ==
    LET mine == {i \in DOMAIN rows : rows[i].cust = id}
        n == Cardinality(mine)
    IN  {[k \in 1..n |-> rows[f[k]]] :
            f \in {g \in [1..n -> mine] :
                     /\ \A a, b \in 1..n : g[a] = g[b] => a = b
                     /\ \A a, b \in 1..n :
                            a < b => DateOf[rows[g[a]].ref] >= DateOf[rows[g[b]].ref]}}

\* fmt.Errorf("<msg>: %w", cause)
Wrap(msg, cause) == [msg |-> msg, cause |-> cause]
NoError == Wrap("nil", "nil")

\* A call of GetCustomerPayments: its position, its argument, what FindByID
\* returned (lookup), whether FindByCustomerID was called (asked) and what it
\* returned (answer, answerErr), and the call's own results (payments, err);
\* calls counts the calls made so far.
NoQuery == [pc |-> "idle", calls |-> 0, id |-> "none", lookup |-> "none", asked |-> FALSE,
            answer |-> NilList, answerErr |-> "none",
            payments |-> NilList, err |-> NoError]

\* Subscribe: XGroupCreateMkStream(streamKey, "payment-processors", "0"), a group
\* that starts before the first entry of the stream. deliveries[i] is the
\* delivery counter Redis keeps for entry i, pending the group's pending list;
\* acked records the entries XAck removed from it.
NoGroup == [deliveries |-> [i \in 1..MaxEntries |-> 0], pending |-> {}, acked |-> {}]

\* messaging.NewRedisEventSubscriber followed by one Subscribe per event type.
\* todo: the event types processEvents has still to visit in its current pass;
\* batch: the entries of the XReadGroup reply not handled yet; returned: what
\* handleMessage returned for each entry, most recent delivery; ctx: the
\* context Start was called with: "live", "cancelling" (cancel() ran while Start
\* was at its select or blocked in XReadGroup) or "cancelled".
NewRedisEventSubscriber(types) ==
    [handlers |-> types, pc |-> "read", eventType |-> "none", todo |-> {},
     batch |-> {}, returned |-> [i \in 1..MaxEntries |-> "none"], ctx |-> "live"]

InitWith(publisher) ==
    /\ dbCustomers = [id \in Customers |-> NewCustomer(id, AssetValue)]
    /\ dbPayments = <<>>
    /\ cacheCustomers = [id \in CustomerIDs |-> NoCustomer]
    /\ fastRefs = {}
    /\ cacheTasks = EmptyBag
    /\ backfillTasks = EmptyBag
    /\ pubTasks = EmptyBag
    /\ events = <<>>
    /\ eventPublisher = publisher
    /\ pc = [p \in Procs |-> "idle"]
    /\ req = [p \in Procs |-> NoRequest]
    /\ cust = [p \in Procs |-> NoCustomer]
    /\ phase = [p \in Procs |-> "first"]
    /\ result = [p \in Procs |-> NoResult]
    /\ calls = [p \in Procs |-> 0]
    /\ saves = [p \in Procs |-> 0]
    /\ commits = [p \in Procs |-> 0]
    /\ wrote = [p \in Procs |-> NoCustomer]
    /\ payRes = [p \in Procs |-> "none"]
    /\ priorOk = [p \in Procs |-> FALSE]
    /\ ownedAtStart = [p \in Procs |-> FALSE]
    /\ streamGroup = NoGroup
    /\ query = NoQuery
    /\ okRefs = {}
    /\ committedRefs = EmptyBag
    /\ committedSum = 0
    /\ raced = [p \in Procs |-> FALSE]

\* main wires the Redis publisher; the API process runs no subscriber.
Init == InitWith("redis") /\ subscriber = NewRedisEventSubscriber({})

\* ------------------------------------------------- ProcessPayment, by step
IsCompleteAnyStatus(r) == TRUE

\* `req.PaymentStatus != "COMPLETE"` guards the whole workflow.
IsComplete(r) == r.status = "COMPLETE"

RetryAlways(ph) == TRUE

\* The conflict of the first Save, and only of the first, is retried.
RetryAllowed(ph) == ph = "first"

RowsAffectedIgnored(n) == FALSE

\* `if result.RowsAffected == 0 { return domain.ErrOptimisticLock }`
RowsAffectedZero(n) == n = 0

CacheErrorIsFatal(redisErr) == IF redisErr THEN "failed to save customer" ELSE "nil"

\* customerRepo.Save after the update committed: an error of the cache SET is
\* logged as a warning and Save returns nil.
SaveResultAfterCacheWrite(redisErr) == "nil"

DuplicateIsFailure(err) == FALSE

\* `if err == domain.ErrDuplicateTransaction` after paymentRepo.Save.
DuplicateIsSuccess(err) == err = "ErrDuplicateTransaction"

RECURSIVE SumCalls(_)
SumCalls(ps) ==
    IF ps = {} THEN 0
    ELSE LET p == CHOOSE x \in ps : TRUE IN calls[p] + SumCalls(ps \ {p})

\* Calls started so far, over all goroutines.
TotalCalls == SumCalls(Procs)

\* `return resp, err` of ProcessPayment.
Return(p, res) ==
    /\ pc' = [pc EXCEPT ![p] = "done"]
    /\ result' = [result EXCEPT ![p] = res]
    /\ okRefs' = IF res.kind = "response" /\ res.success
                 THEN okRefs \cup {req[p].ref} ELSE okRefs

Goto(p, label) ==
    /\ pc' = [pc EXCEPT ![p] = label]
    /\ UNCHANGED <<result, okRefs>>

\* Goroutine p is inside ProcessPayment, between two store operations.
InFlight(p) == pc[p] \notin {"idle", "done"}

\* A request arrives: the status gate, then the dedup check starts.
StartFrom(p, requests) ==
    /\ pc[p] \in {"idle", "done"}
    /\ TotalCalls < MaxCalls
    /\ calls' = [calls EXCEPT ![p] = @ + 1]
    /\ \E r \in requests :
         /\ req' = [req EXCEPT ![p] = r]
         /\ priorOk' = [priorOk EXCEPT ![p] = r.ref \in okRefs]
         /\ ownedAtStart' = [ownedAtStart EXCEPT ![p] =
                                /\ r.cust \in DOMAIN dbCustomers
                                /\ dbCustomers[r.cust].status = "COMPLETED"]
         /\ raced' = [q \in Procs |->
                        IF q = p THEN IsComplete(r) /\ \E o \in Procs \ {p} : InFlight(o)
                        ELSE raced[q] \/ (IsComplete(r) /\ InFlight(q))]
         /\ IF ~IsComplete(r)
            THEN /\ pc' = [pc EXCEPT ![p] = "done"]
                 /\ result' = [result EXCEPT ![p] = NotCompleteResponse(r.status)]
            ELSE /\ pc' = [pc EXCEPT ![p] = "exists_fast"]
                 /\ result' = [result EXCEPT ![p] = NoResult]
    /\ cust' = [cust EXCEPT ![p] = NoCustomer]
    /\ phase' = [phase EXCEPT ![p] = "first"]
    /\ saves' = [saves EXCEPT ![p] = 0]
    /\ commits' = [commits EXCEPT ![p] = 0]
    /\ wrote' = [wrote EXCEPT ![p] = NoCustomer]
    /\ payRes' = [payRes EXCEPT ![p] = "none"]
    /\ UNCHANGED <<sideVars, eventPublisher, stores, okRefs, committedRefs, committedSum>>

Start(p) == StartFrom(p, Requests)

StartPayoff(p) == StartFrom(p, PayoffRequests)

\* paymentRepo.ExistsByTransactionReference, Redis EXISTS payment:<ref>.
ExistsFast(p) ==
    /\ pc[p] = "exists_fast"
    /\ \E redisErr \in BOOLEAN :
         IF ~redisErr /\ req[p].ref \in fastRefs
         THEN /\ phase' = [phase EXCEPT ![p] = "dup"]
              /\ Goto(p, "find_cache")
         ELSE /\ phase' = phase
              /\ Goto(p, "exists_db")
    /\ UNCHANGED <<sideVars, eventPublisher, ownedAtStart, stores, req, cust, calls, history>>

\* paymentRepo.ExistsByTransactionReference, the COUNT on the payments table;
\* a hit starts the two backfill goroutines (FindByTransactionReference's and
\* ExistsByTransactionReference's own).
ExistsDb(p) ==
    /\ pc[p] = "exists_db"
    /\ IF DbCountPayments(dbPayments, req[p].ref) > 0
       THEN /\ backfillTasks' = backfillTasks (+) SetToBag({req[p].ref})
                                              (+) SetToBag({req[p].ref})
            /\ phase' = [phase EXCEPT ![p] = "dup"]
       ELSE /\ backfillTasks' = backfillTasks
            /\ phase' = phase
    /\ Goto(p, "find_cache")
    /\ UNCHANGED <<sideVars, eventPublisher, ownedAtStart, dbCustomers, dbPayments, cacheCustomers, fastRefs, cacheTasks,
                   pubTasks, events, req, cust, calls, history>>

\* What ProcessPayment does with the customer FindByID returned: the duplicate
\* path answers with it, the other paths apply the payment to it.
AfterFind(p, c) ==
    IF phase[p] = "dup"
    THEN /\ cust' = [cust EXCEPT ![p] = c]
         /\ Return(p, Response(TRUE, "duplicate transaction - already processed", c))
    ELSE LET a == ApplyPayment(c, req[p].amount, req[p].date) IN
         IF a.err # "nil"
         THEN /\ cust' = [cust EXCEPT ![p] = c]
              /\ Return(p, ErrResult(a.err))
         ELSE /\ cust' = [cust EXCEPT ![p] = a.c]
              /\ Goto(p, "save_del")

\* customerRepo.FindByID, Redis GET customer:<id>.
FindCache(p) ==
    /\ pc[p] = "find_cache"
    /\ \E redisErr \in BOOLEAN :
         IF ~redisErr /\ cacheCustomers[req[p].cust] # NoCustomer
         THEN AfterFind(p, cacheCustomers[req[p].cust])
         ELSE /\ Goto(p, "find_db")
              /\ cust' = cust
    /\ UNCHANGED <<sideVars, eventPublisher, ownedAtStart, stores, req, phase, calls,
                   saves, commits, wrote, payRes, priorOk, committedRefs, committedSum, raced>>

\* customerRepo.FindByID, SELECT on the customers table; the *Customer built
\* from the row is returned to the caller and handed, the same pointer, to a
\* goroutine that marshals it into the cache when it gets to run, while the
\* caller applies the payment to it.
FindDb(p) ==
    /\ pc[p] = "find_db"
    /\ IF DbSelectCustomer(dbCustomers, req[p].cust) = NoCustomer
       THEN /\ Return(p, ErrResult("ErrCustomerNotFound"))
            /\ UNCHANGED <<cust, cacheTasks>>
       ELSE LET c == ToDomain(DbSelectCustomer(dbCustomers, req[p].cust))
                a == ApplyPayment(c, req[p].amount, req[p].date)
                mutated == phase[p] # "dup" /\ a.err = "nil"
            IN  /\ cacheTasks' = cacheTasks (+) SetToBag({
                        [owner |-> IF mutated THEN p ELSE "none",
                         vals  |-> IF mutated THEN TornReads(c, a.c) ELSE {c}]})
                /\ AfterFind(p, c)
    /\ UNCHANGED <<sideVars, eventPublisher, ownedAtStart, dbCustomers, dbPayments, cacheCustomers, fastRefs, backfillTasks,
                   pubTasks, events, req, phase, calls,
                   saves, commits, wrote, payRes, priorOk, committedRefs, committedSum, raced>>

\* customerRepo.Save, Redis DEL customer:<id> before the update.
SaveDelete(p) ==
    /\ pc[p] = "save_del"
    /\ \E redisErr \in BOOLEAN :
         cacheCustomers' = IF redisErr THEN cacheCustomers
                           ELSE [cacheCustomers EXCEPT ![cust[p].id] = NoCustomer]
    /\ Goto(p, "save_upd")
    /\ UNCHANGED <<sideVars, eventPublisher, ownedAtStart, dbCustomers, dbPayments, fastRefs, cacheTasks, backfillTasks,
                   pubTasks, events, req, cust, phase, calls, history>>

\* The cache goroutine of p's FindByID once p stops writing to the *Customer
\* it shares with it: `seen` are the values the struct took since, and a
\* marshal that is under way across those writes reads each field before or
\* after them.
Retire(tasks, p, seen) ==
    LET own == {t \in BagToSet(tasks) : t.owner = p} IN
    IF own = {} THEN tasks
    ELSE LET t == CHOOSE x \in own : TRUE IN
         (tasks (-) SetToBag({t}))
             (+) SetToBag({[owner |-> "none",
                            vals  |-> t.vals \cup UNION {TornReads(a, b) :
                                                          a \in t.vals, b \in seen}]})

\* customerRepo.Save, the conditional UPDATE and `customer.Version++`; then
\* the caller's reaction to ErrOptimisticLock: one retry, from the refetch on.
SaveUpdate(p) ==
    /\ pc[p] = "save_upd"
    /\ LET u == DbUpdateCustomer(dbCustomers, cust[p]) IN
         /\ dbCustomers' = u.rows
         /\ saves' = [saves EXCEPT ![p] = @ + 1]
         /\ commits' = [commits EXCEPT ![p] = @ + u.affected]
         /\ wrote' = IF u.affected > 0
                     THEN [wrote EXCEPT ![p] = u.rows[cust[p].id]] ELSE wrote
         /\ committedRefs' = IF u.affected > 0
                             THEN committedRefs (+) SetToBag({req[p].ref})
                             ELSE committedRefs
         /\ committedSum' = committedSum + u.affected * req[p].amount
         /\ cacheTasks' = Retire(cacheTasks, p,
                                 IF RowsAffectedZero(u.affected) THEN {}
                                 ELSE {[cust[p] EXCEPT !.ver = @ + 1]})
         /\ IF RowsAffectedZero(u.affected)
            THEN /\ cust' = cust
                 /\ IF RetryAllowed(phase[p])
                    THEN /\ phase' = [phase EXCEPT ![p] = "retry"]
                         /\ Goto(p, "find_cache")
                    ELSE /\ phase' = phase
                         /\ Return(p, ErrResult("ErrOptimisticLock"))
            ELSE /\ cust' = [cust EXCEPT ![p].ver = @ + 1]
                 /\ phase' = phase
                 /\ Goto(p, "save_cache")
    /\ UNCHANGED <<sideVars, eventPublisher, ownedAtStart, dbPayments, cacheCustomers, fastRefs, backfillTasks,
                   pubTasks, events, req, calls, payRes, priorOk, raced>>

\* customerRepo.Save, Redis SET customer:<id> after the update committed.
\* NewPayment cannot fail afterwards: the id and the reference are not empty
\* and ApplyPayment has already refused amount <= 0.
SaveCache(p) ==
    /\ pc[p] = "save_cache"
    /\ \E redisErr \in BOOLEAN :
         /\ cacheCustomers' = IF redisErr THEN cacheCustomers
                              ELSE [cacheCustomers EXCEPT ![cust[p].id] = cust[p]]
         /\ IF SaveResultAfterCacheWrite(redisErr) = "nil"
            THEN Goto(p, "pay_fast")
            ELSE Return(p, ErrResult(SaveResultAfterCacheWrite(redisErr)))
    /\ UNCHANGED <<sideVars, eventPublisher, ownedAtStart, dbCustomers, dbPayments, fastRefs, cacheTasks, backfillTasks,
                   pubTasks, events, req, cust, phase, calls, history>>

\* domain.NewPaymentProcessedEvent with the payload ProcessPayment fills in.
PaymentProcessedEvent(p) ==
    [ref |-> req[p].ref, cust |-> cust[p].id, amount |-> req[p].amount,
     bal |-> cust[p].bal, paid |-> cust[p].paid]

PaymentSavedOrNot(err) == TRUE

\* ProcessPayment: `if err := s.paymentRepo.Save(ctx, payment); err != nil`.
PaymentSaved(err) == err = "nil"

\* ProcessPayment from the return of paymentRepo.Save on: an inserted record
\* starts the publish goroutine, a duplicate is answered as success, any
\* other error is returned.
AfterPaymentSave(p, err) ==
    /\ payRes' = [payRes EXCEPT ![p] = err]
    /\ IF PaymentSaved(err)
       THEN /\ pubTasks' = IF eventPublisher # "nil"
                            THEN pubTasks (+) SetToBag({PaymentProcessedEvent(p)})
                            ELSE pubTasks
            /\ Return(p, Response(TRUE, "payment processed successfully", cust[p]))
       ELSE /\ pubTasks' = pubTasks
            /\ IF DuplicateIsSuccess(err)
               THEN Return(p, Response(TRUE, "payment processed successfully", cust[p]))
               ELSE Return(p, ErrResult(err))

\* paymentRepo.Save, Redis EXISTS payment:<ref>.
PayFast(p) ==
    /\ pc[p] = "pay_fast"
    /\ \E redisErr \in BOOLEAN :
         IF ~redisErr /\ req[p].ref \in fastRefs
         THEN AfterPaymentSave(p, "ErrDuplicateTransaction")
         ELSE /\ Goto(p, "pay_ins")
              /\ UNCHANGED <<payRes, pubTasks>>
    /\ UNCHANGED <<sideVars, eventPublisher, ownedAtStart, dbCustomers, dbPayments, cacheCustomers, fastRefs, cacheTasks,
                   backfillTasks, events, req, cust, phase, calls,
                   saves, commits, wrote, priorOk, committedRefs, committedSum, raced>>

\* paymentRepo.Save, the INSERT.
PayInsert(p) ==
    /\ pc[p] = "pay_ins"
    /\ LET i == DbInsertPayment(dbPayments, NewPayment(req[p])) IN
         /\ dbPayments' = i.rows
         /\ AfterPaymentSave(p, i.err)
    /\ UNCHANGED <<sideVars, eventPublisher, ownedAtStart, dbCustomers, cacheCustomers, fastRefs, cacheTasks, backfillTasks,
                   events, req, cust, phase, calls,
                   saves, commits, wrote, priorOk, committedRefs, committedSum, raced>>

\* --------------------------------------------------- background goroutines
\* `go r.redisRepo.Save(context.Background(), customer)`: json.Marshal of the
\* shared struct, then Redis SET.
CacheFill ==
    /\ \E t \in BagToSet(cacheTasks) :
         /\ cacheTasks' = cacheTasks (-) SetToBag({t})
         /\ \E redisErr \in BOOLEAN :
              IF redisErr THEN cacheCustomers' = cacheCustomers
              ELSE \E s \in t.vals :
                       cacheCustomers' = [cacheCustomers EXCEPT ![s.id] = s]
    /\ UNCHANGED <<sideVars, eventPublisher, ownedAtStart, dbCustomers, dbPayments, fastRefs, backfillTasks, pubTasks, events,
                   locals, history>>

\* `go r.redisRepo.Save(context.Background(), payment)`: Redis SETNX.
Backfill ==
    /\ \E r \in BagToSet(backfillTasks) :
         /\ backfillTasks' = backfillTasks (-) SetToBag({r})
         /\ \E redisErr \in BOOLEAN :
              fastRefs' = IF redisErr THEN fastRefs ELSE fastRefs \cup {r}
    /\ UNCHANGED <<sideVars, eventPublisher, ownedAtStart, dbCustomers, dbPayments, cacheCustomers, cacheTasks, pubTasks, events,
                   locals, history>>

PublishReportsFailure ==
    /\ \E e \in BagToSet(pubTasks) :
         /\ pubTasks' = pubTasks (-) SetToBag({e})
         /\ \E redisErr \in BOOLEAN :
              /\ events' = IF redisErr THEN events ELSE Append(events, e)
              /\ result' = [p \in Procs |->
                              IF redisErr /\ pc[p] = "done" /\ req[p].ref = e.ref
                              THEN ErrResult("failed to publish event")
                              ELSE result[p]]
    /\ UNCHANGED <<sideVars, eventPublisher, ownedAtStart, dbCustomers, dbPayments, cacheCustomers, fastRefs,
                   cacheTasks, backfillTasks, pc, req, cust, phase, calls, history>>

\* `go s.publishPaymentProcessedEvent(customer, req)`: XADD, or an error
\* (Redis failure, the 5 s timeout) that is only logged.
Publish ==
    /\ \E e \in BagToSet(pubTasks) :
         /\ pubTasks' = pubTasks (-) SetToBag({e})
         /\ \E redisErr \in BOOLEAN :
              events' = IF redisErr THEN events ELSE Append(events, e)
    /\ UNCHANGED <<sideVars, eventPublisher, ownedAtStart, dbCustomers, dbPayments, cacheCustomers, fastRefs, cacheTasks,
                   backfillTasks, locals, history>>

\* The cache entry's time-to-live (5 minutes) runs out.
CacheExpire ==
    /\ \E id \in CustomerIDs :
         /\ cacheCustomers[id] # NoCustomer
         /\ cacheCustomers' = [cacheCustomers EXCEPT ![id] = NoCustomer]
    /\ UNCHANGED <<sideVars, eventPublisher, ownedAtStart, dbCustomers, dbPayments, fastRefs, cacheTasks, backfillTasks,
                   pubTasks, events, locals, history>>

\* Redis drops a payment:<ref> key (eviction, restart).
FastEvict ==
    /\ \E r \in fastRefs : fastRefs' = fastRefs \ {r}
    /\ UNCHANGED <<sideVars, eventPublisher, ownedAtStart, dbCustomers, dbPayments, cacheCustomers, cacheTasks, backfillTasks,
                   pubTasks, events, locals, history>>

\* One step of goroutine p inside ProcessPayment.
Step(p) ==
    \/ ExistsFast(p)
    \/ ExistsDb(p)
    \/ FindCache(p)
    \/ FindDb(p)
    \/ SaveDelete(p)
    \/ SaveUpdate(p)
    \/ SaveCache(p)
    \/ PayFast(p)
    \/ PayInsert(p)

Next ==
    \/ \E p \in Procs : Start(p)
    \/ \E p \in Procs : ExistsFast(p)
    \/ \E p \in Procs : ExistsDb(p)
    \/ \E p \in Procs : FindCache(p)
    \/ \E p \in Procs : FindDb(p)
    \/ \E p \in Procs : SaveDelete(p)
    \/ \E p \in Procs : SaveUpdate(p)
    \/ \E p \in Procs : SaveCache(p)
    \/ \E p \in Procs : PayFast(p)
    \/ \E p \in Procs : PayInsert(p)
    \/ CacheFill
    \/ Backfill
    \/ CacheExpire
    \/ FastEvict

\* The payment workflow with its stores and cache goroutines.  The publish
\* goroutines it starts stay pending here: nothing in the workflow reads
\* pubTasks or the stream, so their scheduling changes no other variable.
Spec == Init /\ [][Next]_vars

\* The workflow when a notification may also pay the asset off at once.
NextPayoff == Next \/ \E p \in Procs : StartPayoff(p)

SpecPayoff == Init /\ [][NextPayoff]_vars

\* Customer.ApplyPayment on its own: each goroutine holds a customer and an
\* amount and a date drawn from bounded sets, and applies the payment to it
\* once; the receiver is changed in place and the error is kept in result.
CustomerStates ==
    [id : Customers, bal : 0..AssetValue, paid : 0..AssetValue, last : {0, 1},
     status : {"ACTIVE", "COMPLETED", "DEFAULTED"}, ver : {1, 2}]

ApplyAmounts == (0 - 1)..(AssetValue + 1)

InitApply ==
    /\ \E c \in CustomerStates, amount \in ApplyAmounts, ref \in {"r1", "r2"} :
         /\ cust = [p \in Procs |-> c]
         /\ req = [p \in Procs |->
                     [cust |-> c.id, status |-> "COMPLETE", amount |-> amount,
                      date |-> DateOf[ref], ref |-> ref]]
    /\ dbCustomers = [id \in Customers |-> NewCustomer(id, AssetValue)]
    /\ dbPayments = <<>>
    /\ cacheCustomers = [id \in CustomerIDs |-> NoCustomer]
    /\ fastRefs = {}
    /\ cacheTasks = EmptyBag
    /\ backfillTasks = EmptyBag
    /\ pubTasks = EmptyBag
    /\ events = <<>>
    /\ eventPublisher = "nil"
    /\ pc = [p \in Procs |-> "idle"]
    /\ phase = [p \in Procs |-> "first"]
    /\ result = [p \in Procs |-> NoResult]
    /\ calls = [p \in Procs |-> 0]
    /\ saves = [p \in Procs |-> 0]
    /\ commits = [p \in Procs |-> 0]
    /\ wrote = [p \in Procs |-> NoCustomer]
    /\ payRes = [p \in Procs |-> "none"]
    /\ priorOk = [p \in Procs |-> FALSE]
    /\ ownedAtStart = [p \in Procs |-> FALSE]
    /\ streamGroup = NoGroup
    /\ query = NoQuery
    /\ subscriber = NewRedisEventSubscriber({})
    /\ okRefs = {}
    /\ committedRefs = EmptyBag
    /\ committedSum = 0
    /\ raced = [p \in Procs |-> FALSE]

Apply(p) ==
    /\ pc[p] = "idle"
    /\ LET a == ApplyPayment(cust[p], req[p].amount, req[p].date) IN
         /\ cust' = [cust EXCEPT ![p] = a.c]
         /\ result' = [result EXCEPT ![p] = ErrResult(a.err)]
    /\ pc' = [pc EXCEPT ![p] = "done"]
    /\ UNCHANGED <<sideVars, eventPublisher, ownedAtStart, stores, req, phase, calls, history>>

NextApply == \E p \in Procs : Apply(p)

SpecApply == InitApply /\ [][NextApply]_vars

\* ------------------------------------------------- chains of ApplyPayment
\* A customer entity per goroutine, just built by NewCustomer with some
\* positive asset value (NewCustomer refuses the others); the row keeps the
\* customer as created.
InitChain ==
    /\ \E assetValue \in 1..AssetValue :
         /\ dbCustomers = [id \in Customers |-> NewCustomer(id, assetValue)]
         /\ cust = [p \in Procs |-> NewCustomer("c1", assetValue)]
    /\ req = [p \in Procs |-> NoRequest]
    /\ dbPayments = <<>>
    /\ cacheCustomers = [id \in CustomerIDs |-> NoCustomer]
    /\ fastRefs = {}
    /\ cacheTasks = EmptyBag
    /\ backfillTasks = EmptyBag
    /\ pubTasks = EmptyBag
    /\ events = <<>>
    /\ eventPublisher = "nil"
    /\ pc = [p \in Procs |-> "idle"]
    /\ phase = [p \in Procs |-> "first"]
    /\ result = [p \in Procs |-> NoResult]
    /\ calls = [p \in Procs |-> 0]
    /\ saves = [p \in Procs |-> 0]
    /\ commits = [p \in Procs |-> 0]
    /\ wrote = [p \in Procs |-> NoCustomer]
    /\ payRes = [p \in Procs |-> "none"]
    /\ priorOk = [p \in Procs |-> FALSE]
    /\ ownedAtStart = [p \in Procs |-> FALSE]
    /\ okRefs = {}
    /\ committedRefs = EmptyBag
    /\ committedSum = 0
    /\ raced = [p \in Procs |-> FALSE]
    /\ streamGroup = NoGroup
    /\ subscriber = NewRedisEventSubscriber({})
    /\ query = NoQuery

\* One more ApplyPayment on p's entity, with any amount and date; a refused
\* call leaves the entity as it was.
ApplyNext(p) ==
    /\ \E amount \in ApplyAmounts, ref \in {"r1", "r2"} :
         LET a == ApplyPayment(cust[p], amount, DateOf[ref]) IN
         /\ req' = [req EXCEPT ![p] = [cust |-> cust[p].id, status |-> "COMPLETE",
                                       amount |-> amount, date |-> DateOf[ref],
                                       ref |-> ref]]
         /\ cust' = [cust EXCEPT ![p] = a.c]
         /\ result' = [result EXCEPT ![p] = ErrResult(a.err)]
    /\ UNCHANGED <<sideVars, eventPublisher, ownedAtStart, stores, pc, phase, calls,
                   history>>

NextChain == \E p \in Procs : ApplyNext(p)

SpecChain == InitChain /\ [][NextChain]_vars

\* ------------------------------------------------- durable UpdateBalance
\* Rows the customers table can hold after NewCustomer and committed
\* payments: balance and status follow from what was paid.
PaidRows ==
    {[id |-> "c1", bal |-> AssetValue - paid, paid |-> paid, last |-> last,
      status |-> IF paid = AssetValue THEN "COMPLETED" ELSE "ACTIVE", ver |-> ver] :
        paid \in 0..AssetValue, last \in {0, 1}, ver \in {1, 2}}

InitBalance ==
    /\ \E row \in PaidRows :
         /\ dbCustomers = [id \in Customers |-> row]
         /\ cacheCustomers \in {[id \in CustomerIDs |-> NoCustomer],
                                [id \in CustomerIDs |->
                                    IF id \in Customers THEN row ELSE NoCustomer]}
    /\ req = [p \in Procs |-> NoRequest]
    /\ cust = [p \in Procs |-> NoCustomer]
    /\ dbPayments = <<>>
    /\ fastRefs = {}
    /\ cacheTasks = EmptyBag
    /\ backfillTasks = EmptyBag
    /\ pubTasks = EmptyBag
    /\ events = <<>>
    /\ eventPublisher = "nil"
    /\ pc = [p \in Procs |-> "idle"]
    /\ phase = [p \in Procs |-> "first"]
    /\ result = [p \in Procs |-> NoResult]
    /\ calls = [p \in Procs |-> 0]
    /\ saves = [p \in Procs |-> 0]
    /\ commits = [p \in Procs |-> 0]
    /\ wrote = [p \in Procs |-> NoCustomer]
    /\ payRes = [p \in Procs |-> "none"]
    /\ priorOk = [p \in Procs |-> FALSE]
    /\ ownedAtStart = [p \in Procs |-> FALSE]
    /\ okRefs = {}
    /\ committedRefs = EmptyBag
    /\ committedSum = 0
    /\ raced = [p \in Procs |-> FALSE]
    /\ streamGroup = NoGroup
    /\ subscriber = NewRedisEventSubscriber({})
    /\ query = NoQuery

\* What the row would be, and the error returned, had the caller holding the
\* customer at `version` run ApplyPayment on it and then Save.
ApplyAndSave(rows, id, amount, date, version) ==
    LET a == ApplyPayment([ToDomain(rows[id]) EXCEPT !.ver = version], amount, date)
        u == DbUpdateCustomer(rows, a.c)
    IN  IF a.err # "nil" THEN [rows |-> rows, err |-> a.err]
        ELSE IF RowsAffectedZero(u.affected)
             THEN [rows |-> rows, err |-> "ErrOptimisticLock"]
        ELSE [rows |-> u.rows, err |-> "nil"]

\* GORMCustomerRepository.UpdateBalance(customerID, amount, version): the
\* cache DEL (an error is logged only), the UPDATE and its RowsAffected. Kept
\* beside it for the comparison: the row before the call in cust, and in wrote
\* and payRes what ApplyPayment and Save would have left and returned.
UpdateBalance(p) ==
    /\ pc[p] = "idle"
    /\ \E id \in Customers, amount \in ApplyAmounts, version \in {1, 2},
          redisErr \in BOOLEAN :
         LET u == DbUpdateBalance(dbCustomers, id, amount, version)
             s == ApplyAndSave(dbCustomers, id, amount, DateOf["r1"], version)
         IN  /\ req' = [req EXCEPT ![p] = [cust |-> id, amount |-> amount,
                                           version |-> version, ref |-> "none"]]
             /\ cacheCustomers' = IF redisErr THEN cacheCustomers
                                  ELSE [cacheCustomers EXCEPT ![id] = NoCustomer]
             /\ dbCustomers' = u.rows
             /\ result' = [result EXCEPT ![p] =
                              ErrResult(IF RowsAffectedZero(u.affected)
                                        THEN "ErrOptimisticLock" ELSE "nil")]
             /\ cust' = [cust EXCEPT ![p] = dbCustomers[id]]
             /\ wrote' = [wrote EXCEPT ![p] = s.rows[id]]
             /\ payRes' = [payRes EXCEPT ![p] = s.err]
    /\ pc' = [pc EXCEPT ![p] = "done"]
    /\ UNCHANGED <<sideVars, eventPublisher, ownedAtStart, dbPayments, fastRefs,
                   cacheTasks, backfillTasks, pubTasks, events, phase, calls,
                   saves, commits, priorOk, okRefs, committedRefs, committedSum,
                   raced>>

NextBalance == \E p \in Procs : UpdateBalance(p)

SpecBalance == InitBalance /\ [][NextBalance]_vars

\* The same with the publish goroutines running, for a service built with the
\* Redis publisher or with none.
InitEvents ==
    /\ \E publisher \in {"redis", "nil"} : InitWith(publisher)
    /\ subscriber = NewRedisEventSubscriber({})

NextEvents == Next \/ Publish

SpecEvents == InitEvents /\ [][NextEvents]_vars

\* ------------------------------------------ faults after the balance write
\* What is left of a call whose process stopped: it never returns.
Crashed == [kind |-> "crashed"]

\* The process stops before the conditional UPDATE has committed.
CrashBeforeCommit(p) ==
    /\ pc[p] \in {"save_del", "save_upd"}
    /\ pc' = [pc EXCEPT ![p] = "done"]
    /\ result' = [result EXCEPT ![p] = Crashed]
    /\ UNCHANGED <<sideVars, eventPublisher, ownedAtStart, stores, req, cust, phase,
                   calls, history>>

\* The process serving call p stops (kill, panic, power loss) after the
\* conditional UPDATE of its customer Save has committed and before the
\* INSERT of its payment record.
Crash(p) ==
    /\ pc[p] \in {"save_cache", "pay_fast", "pay_ins"}
    /\ pc' = [pc EXCEPT ![p] = "done"]
    /\ result' = [result EXCEPT ![p] = Crashed]
    /\ UNCHANGED <<sideVars, eventPublisher, ownedAtStart, stores, req, cust, phase,
                   calls, history>>

\* paymentRepo.Save, the INSERT failing with an error that is no duplicate
\* key (connection lost, request context cancelled): "database error", which
\* ProcessPayment returns as "failed to save payment".
PayInsertFails(p) ==
    /\ pc[p] = "pay_ins"
    /\ AfterPaymentSave(p, "database error")
    /\ UNCHANGED <<sideVars, eventPublisher, ownedAtStart, dbCustomers, dbPayments,
                   cacheCustomers, fastRefs, cacheTasks, backfillTasks,
                   events, req, cust, phase, calls,
                   saves, commits, wrote, priorOk, committedRefs, committedSum, raced>>

NextFaults ==
    \/ Next
    \/ \E p \in Procs : Crash(p)
    \/ \E p \in Procs : PayInsertFails(p)

SpecFaults == Init /\ [][NextFaults]_vars

\* ------------------------------------------- after an earlier payment
\* The seeded customer after an earlier call has processed reference r1: the
\* row at version 2, the payment recorded, and the key payment:r1 either
\* backfilled into Redis by a later existence check or not.
PaidOnce ==
    [ApplyPayment(NewCustomer("c1", AssetValue), AmountOf["r1"], DateOf["r1"]).c
        EXCEPT !.ver = @ + 1]

InitPaidOnce(cache) ==
    /\ dbCustomers = [id \in Customers |-> PaidOnce]
    /\ dbPayments = <<[ref |-> "r1", cust |-> "c1", amount |-> AmountOf["r1"]]>>
    /\ cacheCustomers = cache
    /\ fastRefs \in {{}, {"r1"}}
    /\ cacheTasks = EmptyBag
    /\ backfillTasks = EmptyBag
    /\ pubTasks = EmptyBag
    /\ events = <<>>
    /\ eventPublisher = "redis"
    /\ pc = [p \in Procs |-> "idle"]
    /\ req = [p \in Procs |-> NoRequest]
    /\ cust = [p \in Procs |-> NoCustomer]
    /\ phase = [p \in Procs |-> "first"]
    /\ result = [p \in Procs |-> NoResult]
    /\ calls = [p \in Procs |-> 0]
    /\ saves = [p \in Procs |-> 0]
    /\ commits = [p \in Procs |-> 0]
    /\ wrote = [p \in Procs |-> NoCustomer]
    /\ payRes = [p \in Procs |-> "none"]
    /\ priorOk = [p \in Procs |-> FALSE]
    /\ ownedAtStart = [p \in Procs |-> FALSE]
    /\ okRefs = {"r1"}
    /\ committedRefs = SetToBag({"r1"})
    /\ committedSum = AmountOf["r1"]
    /\ raced = [p \in Procs |-> FALSE]
    /\ streamGroup = NoGroup
    /\ subscriber = NewRedisEventSubscriber({})
    /\ query = NoQuery

InitDedup == InitPaidOnce([id \in CustomerIDs |-> NoCustomer])

SpecDedup == InitDedup /\ [][Next]_vars

\* The same, with the cache still holding the customer as it was before that
\* payment: the snapshot of version 1 under a row of version 2.
InitStale ==
    InitPaidOnce([id \in CustomerIDs |->
                     IF id \in Customers THEN NewCustomer(id, AssetValue)
                     ELSE NoCustomer])

SpecStale == InitStale /\ [][Next]_vars

\* Every started call keeps being scheduled and its store operations return.
FairSpec == Spec /\ \A p \in Procs : WF_vars(Step(p))

TypeOK ==
    /\ TotalCalls \in 0..MaxCalls
    /\ \A p \in Procs :
           LET own == {t \in BagToSet(cacheTasks) : t.owner = p} IN
           /\ Cardinality(own) <= 1
           /\ \A t \in own : CopiesIn(t, cacheTasks) = 1 /\ pc[p] \in {"save_del", "save_upd"}
    /\ \A p \in Procs : pc[p] \in {"idle", "exists_fast", "exists_db", "find_cache",
                                   "find_db", "save_del", "save_upd", "save_cache",
                                   "pay_fast", "pay_ins", "done"}

\* ------------------------------------------ the worker's event subscriber
\* Count of the XReadGroup call.
ReadCount == 10

\* Event types a handler can be subscribed for; handleMessage decodes only
\* payment.processed.
EventTypes == {"payment.processed", "payment.received"}

\* A stream entry: the stream events:<type> it was appended to and its "data"
\* field: the JSON of an event, a string that is no JSON, or no string at all.
StreamEntries == [stream : EventTypes, data : {"event", "garbage", "missing"}]

\* The variables of the payment service, which the worker never touches.
serviceVars == <<stores, eventPublisher, locals, history, ownedAtStart>>

\* domain.EventHandler: any function returning an error. The handler may fail
\* on the first MaxHandlerFailures deliveries of an entry and succeeds on
\* every later one.
Handler(delivery, fails) ==
    IF fails /\ delivery <= MaxHandlerFailures THEN "handler error" ELSE "nil"

HandleMessageSwallowsErrors(handlers, eventType, message, handlerResult) == "nil"

\* RedisEventSubscriber.handleMessage
HandleMessage(handlers, eventType, message, handlerResult) ==
    IF eventType \notin handlers THEN "no handler for event type"
    ELSE IF message.data = "missing" THEN "invalid event data format"
    ELSE IF eventType = "payment.processed"
         THEN IF message.data = "garbage" THEN "failed to unmarshal event"
              ELSE handlerResult
    ELSE "unknown event type"

\* XADD to events:<type>, by RedisEventPublisher.Publish or any other client
\* of the Redis instance.
XAdd ==
    /\ Len(events) < MaxEntries
    /\ \E e \in StreamEntries : events' = Append(events, e)
    /\ UNCHANGED <<dbCustomers, dbPayments, cacheCustomers, fastRefs, cacheTasks,
                   backfillTasks, pubTasks, eventPublisher, locals, history,
                   ownedAtStart, sideVars>>

NeverDelivered(eventType) ==
    {i \in 1..Len(events) :
        events[i].stream = eventType /\ streamGroup.deliveries[i] = 0}

\* What XREADGROUP with the id ">" selects: the entries of the stream never
\* delivered to any consumer of the group, oldest first, at most ReadCount.
XReadGroupReply(eventType) ==
    LET new == NeverDelivered(eventType) IN
    {i \in new : Cardinality({j \in new : j < i}) < ReadCount}

\* The context once a call that was blocked when cancel() ran has returned:
\* every later call is made with a context already cancelled.
AfterCall(ctx) == IF ctx = "live" THEN "live" ELSE "cancelled"

\* processEvents, one iteration of `for eventType := range s.handlers` up to
\* the reply of XReadGroup. A read error ends the pass (Start sleeps a second
\* and calls processEvents again); redis.Nil moves on to the next event type.
XReadGroup(eventType, redisErr) ==
    LET types == IF subscriber.todo = {} THEN subscriber.handlers ELSE subscriber.todo
        reply == XReadGroupReply(eventType)
    IN
    /\ subscriber.pc = "read"
    /\ eventType \in types
    /\ IF redisErr
       THEN /\ subscriber' = [subscriber EXCEPT !.todo = {}, !.ctx = AfterCall(@)]
            /\ UNCHANGED streamGroup
       ELSE IF reply = {}
       THEN /\ subscriber' = [subscriber EXCEPT !.todo = types \ {eventType},
                                                !.ctx = AfterCall(@)]
            /\ UNCHANGED streamGroup
       ELSE /\ streamGroup' =
                [streamGroup EXCEPT
                    !.deliveries = [i \in 1..MaxEntries |->
                                       IF i \in reply THEN @[i] + 1 ELSE @[i]],
                    !.pending = @ \cup reply]
            /\ subscriber' = [subscriber EXCEPT !.todo = types \ {eventType},
                                                !.eventType = eventType,
                                                !.batch = reply,
                                                !.pc = "handle",
                                                !.ctx = AfterCall(@)]
    /\ UNCHANGED <<serviceVars, events, query>>

\* The message the loop over stream.Messages is at: the oldest of the batch.
Message == CHOOSE i \in subscriber.batch : \A j \in subscriber.batch : i <= j

NextMessage(sub) ==
    [sub EXCEPT !.batch = @ \ {Message},
                !.pc = IF subscriber.batch = {Message} THEN "read" ELSE "handle"]

\* processEvents, the call of handleMessage for one message: an error is
\* logged and the loop continues with the next message.
ProcessMessage(fails) ==
    /\ subscriber.pc = "handle"
    /\ LET err == HandleMessage(subscriber.handlers, subscriber.eventType,
                                events[Message],
                                Handler(streamGroup.deliveries[Message], fails))
           sub == [subscriber EXCEPT !.returned[Message] = err]
       IN  subscriber' = IF err = "nil" THEN [sub EXCEPT !.pc = "ack"]
                         ELSE NextMessage(sub)
    /\ UNCHANGED <<serviceVars, events, streamGroup, query>>

\* processEvents, s.client.XAck after handleMessage returned nil; its result
\* is not looked at.
XAck(redisErr) ==
    /\ subscriber.pc = "ack"
    /\ streamGroup' = IF redisErr THEN streamGroup
                      ELSE [streamGroup EXCEPT !.pending = @ \ {Message},
                                               !.acked = @ \cup {Message}]
    /\ subscriber' = NextMessage(subscriber)
    /\ UNCHANGED <<serviceVars, events, query>>

\* cmd/worker: the worker subscribes for payment.processed; a subscriber may
\* be given handlers for other event types as well.
InitConsumer ==
    /\ InitWith("redis")
    /\ \E types \in {{"payment.processed"}, EventTypes} :
           subscriber = NewRedisEventSubscriber(types)

NextConsumer ==
    \/ XAdd
    \/ \E eventType \in EventTypes, redisErr \in BOOLEAN : XReadGroup(eventType, redisErr)
    \/ \E fails \in BOOLEAN : ProcessMessage(fails)
    \/ \E redisErr \in BOOLEAN : XAck(redisErr)

SpecConsumer == InitConsumer /\ [][NextConsumer]_vars

\* The loop keeps running and Redis answers: every read of a stream, every
\* handler call and every acknowledgement is eventually made without error.
FairConsumer ==
    /\ SpecConsumer
    /\ \A eventType \in EventTypes : WF_vars(XReadGroup(eventType, FALSE))
    /\ WF_vars(\E fails \in BOOLEAN : ProcessMessage(fails))
    /\ WF_vars(XAck(FALSE))

\* ------------------------------------------------------ worker shutdown
\* cmd/worker main: SIGINT or SIGTERM arrives and the goroutine calls cancel().
\* While Start is at its select or blocked in XReadGroup that call may still
\* return a reply; anywhere else the next call sees the cancelled context.
Cancel ==
    /\ subscriber.ctx = "live"
    /\ subscriber.pc # "stopped"
    /\ subscriber' = [subscriber EXCEPT
                         !.ctx = IF subscriber.pc = "read" THEN "cancelling"
                                 ELSE "cancelled"]
    /\ UNCHANGED <<serviceVars, events, streamGroup, query>>

\* A Redis call made with a context already cancelled fails before it is
\* sent; with a live context, or blocked when cancel() ran, it goes either way.
CallFails(redisErr) == subscriber.ctx = "cancelled" => redisErr

\* Start, `case <-ctx.Done(): return nil`, taken at the top of the loop: no
\* pass of processEvents is under way.
StartReturns ==
    /\ subscriber.pc = "read"
    /\ subscriber.todo = {}
    /\ subscriber.ctx # "live"
    /\ subscriber' = [subscriber EXCEPT !.pc = "stopped", !.ctx = "cancelled"]
    /\ UNCHANGED <<serviceVars, events, streamGroup, query>>

\* The worker is started again: a new process, hence a new consumer name
\* worker-<hostname>-<pid> in the same group, with the same subscription.
Restart ==
    /\ subscriber.pc = "stopped"
    /\ subscriber' = [NewRedisEventSubscriber(subscriber.handlers) EXCEPT
                         !.returned = subscriber.returned]
    /\ UNCHANGED <<serviceVars, events, streamGroup, query>>

NextShutdown ==
    \/ XAdd
    \/ \E eventType \in EventTypes, redisErr \in BOOLEAN :
           CallFails(redisErr) /\ XReadGroup(eventType, redisErr)
    \/ \E fails \in BOOLEAN : ProcessMessage(fails)
    \/ \E redisErr \in BOOLEAN : CallFails(redisErr) /\ XAck(redisErr)
    \/ Cancel
    \/ StartReturns
    \/ Restart

SpecShutdown == InitConsumer /\ [][NextShutdown]_vars

\* Redis answers every call made with a live context, the loop keeps running,
\* and a stopped worker is started again.
FairShutdown ==
    /\ SpecShutdown
    /\ \A eventType \in EventTypes : WF_vars(XReadGroup(eventType, subscriber.ctx = "cancelled"))
    /\ WF_vars(\E fails \in BOOLEAN : ProcessMessage(fails))
    /\ WF_vars(XAck(subscriber.ctx = "cancelled"))
    /\ WF_vars(StartReturns)
    /\ WF_vars(Restart)

\* ------------------------------------------------- GetCustomerPayments
LookupErrorIgnored(err) == FALSE

\* GetCustomerPayments: `if err != nil` after customerRepo.FindByID.
LookupFailed(err) == err # "nil"

\* A caller invokes GetCustomerPayments(customerID).
GetCustomerPayments(id) ==
    /\ query.pc \in {"idle", "done"}
    /\ query.calls < MaxQueries
    /\ query' = [NoQuery EXCEPT !.pc = "find", !.id = id, !.calls = query.calls + 1]
    /\ UNCHANGED <<serviceVars, streamGroup, subscriber>>

\* GetCustomerPayments up to the return of customerRepo.FindByID (cache, then
\* SELECT and the cache-fill goroutine); on an error it returns nil and
\* "failed to get customer: <err>".
QueryFindByID(redisErr, dbErr) ==
    /\ query.pc = "find"
    /\ LET hit == ~redisErr /\ cacheCustomers[query.id] # NoCustomer
           row == DbSelectCustomer(dbCustomers, query.id)
           err == IF hit THEN "nil"
                  ELSE IF dbErr THEN "database error"
                  ELSE IF row = NoCustomer THEN "ErrCustomerNotFound"
                  ELSE "nil"
       IN  /\ cacheTasks' = IF ~hit /\ err = "nil"
                            THEN cacheTasks (+) SetToBag({[owner |-> "none",
                                                           vals |-> {ToDomain(row)}]})
                            ELSE cacheTasks
           /\ query' = IF LookupFailed(err)
                       THEN [query EXCEPT !.pc = "done", !.lookup = err,
                                          !.payments = NilList,
                                          !.err = Wrap("failed to get customer", err)]
                       ELSE [query EXCEPT !.pc = "payments", !.lookup = err]
    /\ UNCHANGED <<dbCustomers, dbPayments, cacheCustomers, fastRefs, backfillTasks,
                   pubTasks, events, eventPublisher, locals, history, ownedAtStart,
                   streamGroup, subscriber>>

\* GetCustomerPayments from paymentRepo.FindByCustomerID to its return.
QueryFindByCustomerID(dbErr) ==
    /\ query.pc = "payments"
    /\ IF dbErr
       THEN query' = [query EXCEPT !.pc = "done", !.asked = TRUE,
                                   !.answer = NilList,
                                   !.answerErr = "database error",
                                   !.payments = NilList,
                                   !.err = Wrap("failed to get payments",
                                                "database error")]
       ELSE \E items \in FindByCustomerID(dbPayments, query.id) :
                query' = [query EXCEPT !.pc = "done", !.asked = TRUE,
                                       !.answer = List(items),
                                       !.answerErr = "nil",
                                       !.payments = List(items), !.err = NoError]
    /\ UNCHANGED <<serviceVars, streamGroup, subscriber>>

\* A payment record committed by a ProcessPayment call running beside the
\* query.
PaymentRecorded ==
    /\ Len(dbPayments) < MaxPayments
    /\ \E ref \in Refs, id \in CustomerIDs :
         LET i == DbInsertPayment(dbPayments,
                                  [ref |-> ref, cust |-> id, amount |-> AmountOf[ref]])
         IN  i.err = "nil" /\ dbPayments' = i.rows
    /\ UNCHANGED <<dbCustomers, cacheCustomers, fastRefs, cacheTasks, backfillTasks,
                   pubTasks, events, eventPublisher, locals, history, ownedAtStart,
                   sideVars>>

InitQuery == InitWith("redis") /\ subscriber = NewRedisEventSubscriber({})

NextQuery ==
    \/ PaymentRecorded
    \/ \E id \in CustomerIDs : GetCustomerPayments(id)
    \/ \E redisErr, dbErr \in BOOLEAN : QueryFindByID(redisErr, dbErr)
    \/ \E dbErr \in BOOLEAN : QueryFindByCustomerID(dbErr)
    \/ CacheFill

SpecQuery == InitQuery /\ [][NextQuery]_vars

\* ------------------------------------------------------------ properties
Done(p) == pc[p] = "done"

Succeeded(p) == result[p].kind = "response" /\ result[p].success

Processed(p) == Succeeded(p) /\ result[p].message = "payment processed successfully"

Deduplicated(p) ==
    Succeeded(p) /\ result[p].message = "duplicate transaction - already processed"

\* p and q are the only two calls of the behaviour, they ran concurrently,
\* both carried COMPLETE and the id of the seeded customer, and both returned.
TwoRacingCalls(p, q) ==
    /\ p # q
    /\ calls[p] = 1 /\ calls[q] = 1
    /\ raced[p] /\ raced[q]
    /\ Done(p) /\ Done(q)
    /\ IsComplete(req[p]) /\ IsComplete(req[q])
    /\ req[p].cust \in Customers /\ req[q].cust = req[p].cust

\* C1, as the specification states it: two concurrent COMPLETE calls with the
\* same customerId, amount and transactionReference on an ACTIVE customer with
\* no record of the reference change the durable balance exactly once
\* (totalPaid grows by the amount once, version by 1) and both return
\* success:true with identical outstandingBalance and totalPaid.
C1_SameReferenceAppliedOnce ==
    \A p, q \in Procs :
        (TwoRacingCalls(p, q) /\ req[p] = req[q])
        => /\ dbCustomers[req[p].cust].paid = req[p].amount
           /\ dbCustomers[req[p].cust].ver = NewCustomer(req[p].cust, AssetValue).ver + 1
           /\ Succeeded(p) /\ Succeeded(q)
           /\ result[p].bal = result[q].bal
           /\ result[p].paid = result[q].paid

\* C1, the state that refutes it: both calls of one reference returned
\* success and the amount is in totalPaid twice.
C1_AppliedTwice ==
    \E p, q \in Procs :
        /\ TwoRacingCalls(p, q) /\ req[p] = req[q]
        /\ Succeeded(p) /\ Succeeded(q)
        /\ dbCustomers[req[p].cust].paid = 2 * req[p].amount

\* C2, as the specification states it: once a call with reference r returned
\* success, every later call with reference r returns success:true with the
\* duplicate message and leaves the durable customer row alone.
C2_EveryLaterCallIsDuplicate ==
    \A p \in Procs :
        (priorOk[p] /\ Done(p)) => (Deduplicated(p) /\ saves[p] = 0)

\* C2, amended: once a call with reference r returned success, a later call
\* with reference r issues no write of the customer row, and when it carries
\* COMPLETE and the id of an existing customer it returns success:true with
\* the message "duplicate transaction - already processed".
C2_LaterCompleteCallIsDuplicate ==
    \A p \in Procs :
        priorOk[p] =>
            /\ saves[p] = 0
            /\ commits[p] = 0
            /\ (Done(p) /\ IsComplete(req[p]) /\ req[p].cust \in DOMAIN dbCustomers)
                   => Deduplicated(p)

C2_Resubmitted ==
    \E p \in Procs :
        /\ priorOk[p] /\ Done(p) /\ Deduplicated(p)
        /\ dbCustomers[req[p].cust].paid = result[p].paid

\* C3: the payments table never holds two rows of one transactionReference,
\* whatever the fast tier holds, and a payment Save that returns either
\* appended its row and returned nil or left the table alone and returned
\* ErrDuplicateTransaction.
C3_OneRecordPerReference ==
    /\ [](\A i, j \in 1..Len(dbPayments) :
              dbPayments[i].ref = dbPayments[j].ref => i = j)
    /\ [][\A p \in Procs :
            payRes'[p] \notin {"none", payRes[p]} =>
                \/ /\ payRes'[p] = "nil"
                   /\ dbPayments' = Append(dbPayments, NewPayment(req[p]))
                \/ /\ payRes'[p] = "ErrDuplicateTransaction"
                   /\ dbPayments' = dbPayments]_vars

\* A Save met the unique index while the fast tier did not hold the key.
C3_DuplicateCaughtByIndex ==
    \E p \in Procs :
        /\ payRes[p] = "ErrDuplicateTransaction"
        /\ req[p].ref \notin fastRefs
        /\ Len(dbPayments) = 1

\* Every call started so far is the first of its goroutine and no two of
\* them carry the same reference.
DistinctReferences ==
    /\ \A p \in Procs : calls[p] <= 1
    /\ \A p, q \in Procs :
           (p # q /\ calls[p] = 1 /\ calls[q] = 1) => req[p].ref # req[q].ref

\* C4, as the specification states it: with concurrent calls of distinct
\* references no update of the customer row is lost: in every state the
\* durable totalPaid is the initial totalPaid plus the amounts of the balance
\* writes that committed, and a call that returned "payment processed
\* successfully" has its amount in it exactly once.
C4_NoLostUpdate ==
    DistinctReferences =>
        /\ \A c \in Customers :
               dbCustomers[c].paid = NewCustomer(c, AssetValue).paid + committedSum
        /\ \A p \in Procs :
               (Done(p) /\ Processed(p))
                   => (commits[p] = 1 /\ CopiesIn(req[p].ref, committedRefs) = 1)

\* C4, the state that refutes it: two calls with distinct references raced
\* and the durable totalPaid holds an amount that no committed write carries
\* as its own.
C4_UncommittedAmountPersisted ==
    \E p, q \in Procs :
        /\ TwoRacingCalls(p, q) /\ req[p].ref # req[q].ref
        /\ dbCustomers[req[p].cust].paid
               # NewCustomer(req[p].cust, AssetValue).paid + committedSum

\* C5: a row of the payments table is written only by a call whose balance
\* write has committed, so every row's reference has a committed balance write.
C5_BalanceBeforeRecord ==
    /\ [](\A i \in 1..Len(dbPayments) : BagIn(dbPayments[i].ref, committedRefs))
    /\ [][dbPayments' # dbPayments =>
            \E p \in Procs :
                /\ pc[p] = "pay_ins"
                /\ commits[p] = 1
                /\ dbPayments' = Append(dbPayments, NewPayment(req[p]))]_vars

\* A record was written by a call that committed only on its retry.
C5_RecordAfterRetry ==
    \E p \in Procs :
        /\ Done(p) /\ payRes[p] = "nil" /\ saves[p] = 2
        /\ \E i \in 1..Len(dbPayments) : dbPayments[i].ref = req[p].ref

\* C6: a customer Save whose version differs from the stored one leaves the
\* row unchanged and ends in the optimistic-lock conflict (the retry or the
\* error); a Save whose version is the stored one writes its balance fields,
\* raises the stored version by exactly 1 and succeeds.
C6_ConditionalPersist ==
    [][\A p \in Procs :
         (pc[p] = "save_upd" /\ pc'[p] # "save_upd") =>
             LET id == cust[p].id IN
             IF cust[p].ver # dbCustomers[id].ver
             THEN /\ dbCustomers' = dbCustomers
                  /\ \/ pc'[p] = "find_cache" /\ phase'[p] = "retry"
                     \/ pc'[p] = "done" /\ result'[p] = ErrResult("ErrOptimisticLock")
             ELSE /\ dbCustomers'[id] = [cust[p] EXCEPT !.ver = dbCustomers[id].ver + 1]
                  /\ pc'[p] = "save_cache"
                  /\ cust'[p].ver = dbCustomers'[id].ver]_vars

\* One Save committed and another call's Save, carrying the old version,
\* was refused.
C6_StaleRefused ==
    \E p, q \in Procs :
        /\ p # q
        /\ commits[p] = 1
        /\ saves[q] = 1 /\ commits[q] = 0 /\ phase[q] = "retry"
        /\ cust[q].ver # dbCustomers[cust[q].id].ver

\* C7: a call issues at most two conditional writes; the first conflict sends
\* it back to FindByID, and the retry applies the payment to the customer that
\* FindByID returns; a second conflict is returned as ErrOptimisticLock; every
\* started call returns.
C7_RetryOnce ==
    /\ [](\A p \in Procs :
              /\ saves[p] <= 2
              /\ (saves[p] = 2 /\ commits[p] = 0)
                     => (Done(p) /\ result[p] = ErrResult("ErrOptimisticLock"))
              /\ (Done(p) /\ result[p] = ErrResult("ErrOptimisticLock"))
                     => (saves[p] = 2 /\ commits[p] = 0))
    /\ [][\A p \in Procs :
            /\ (pc[p] = "save_upd" /\ saves[p] = 0 /\ saves'[p] = 1 /\ commits'[p] = 0)
                   => (pc'[p] = "find_cache" /\ phase'[p] = "retry")
            /\ (phase[p] = "retry" /\ pc[p] \in {"find_cache", "find_db"}
                                    /\ pc'[p] = "save_del")
                   => \E c \in ({cacheCustomers[req[p].cust]}
                               \cup {dbCustomers[id] : id \in DOMAIN dbCustomers})
                              \ {NoCustomer} :
                          cust'[p] = ApplyPayment(c, req[p].amount, req[p].date).c]_vars
    /\ \A p \in Procs : InFlight(p) ~> Done(p)

\* A call lost both of its conditional writes and returned the conflict.
C7_SecondConflict ==
    \E p \in Procs :
        /\ Done(p) /\ result[p] = ErrResult("ErrOptimisticLock")
        /\ saves[p] = 2

\* C8, as the specification states it: when exactly two calls with distinct
\* references race on the same ACTIVE customer at version v, both succeed
\* under every interleaving and the row ends at version v + 2.
C8_BothRacersSucceed ==
    \A p, q \in Procs :
        (TwoRacingCalls(p, q) /\ req[p].ref # req[q].ref)
        => /\ Succeeded(p) /\ Succeeded(q)
           /\ dbCustomers[req[p].cust].ver = NewCustomer(req[p].cust, AssetValue).ver + 2

\* C8, the state that refutes it: one of the two racers returned
\* ErrOptimisticLock and the row stayed at version v + 1.
C8_RacerRejected ==
    \E p, q \in Procs :
        /\ TwoRacingCalls(p, q) /\ req[p].ref # req[q].ref
        /\ Processed(p)
        /\ result[q] = ErrResult("ErrOptimisticLock")
        /\ dbCustomers[req[p].cust].ver = NewCustomer(req[p].cust, AssetValue).ver + 1

\* C9: a call whose paymentStatus is not COMPLETE returns success:false at
\* once and its step leaves the tables, the cache, the dedup keys, the pending
\* goroutines and the event stream as they were.
C9_NotCompleteTouchesNothing ==
    [][\A p \in Procs :
         (calls'[p] # calls[p] /\ req'[p].status # "COMPLETE") =>
             /\ pc'[p] = "done"
             /\ result'[p].kind = "response"
             /\ ~result'[p].success
             /\ UNCHANGED stores]_vars

\* A PENDING call returned while the stores held a committed payment.
C9_PendingRejected ==
    \E p \in Procs :
        /\ Done(p) /\ req[p].status = "PENDING"
        /\ result[p] = NotCompleteResponse(req[p].status)
        /\ Len(dbPayments) = 1
        /\ \E c \in Customers : dbCustomers[c].ver = 2 /\ cacheCustomers[c] # NoCustomer
        /\ pubTasks # EmptyBag

\* C10: a call whose payment Save returned ErrDuplicateTransaction after its
\* own balance write committed returns success:true with the balances that
\* write stored, having committed exactly once, and returns no error.
C10_DuplicateAfterCommitIsSuccess ==
    \A p \in Procs :
        (Done(p) /\ payRes[p] = "ErrDuplicateTransaction")
        => /\ Processed(p)
           /\ commits[p] = 1
           /\ result[p].bal = wrote[p].bal
           /\ result[p].paid = wrote[p].paid

\* A call committed its balance write and then met the duplicate record.
C10_DuplicateAfterCommit ==
    \E p \in Procs :
        /\ Done(p) /\ payRes[p] = "ErrDuplicateTransaction"
        /\ commits[p] = 1
        /\ wrote[p] # NoCustomer
        /\ Succeeded(p)

\* ------------------------------------------------------------------ C11
\* A step that takes a publish goroutine to its end, with the event appended
\* to the stream or with an error, changes no call's result or position and
\* no table; the call that inserted its payment record has answered
\* "payment processed successfully" with the customer it saved, whether the
\* service has a publisher or not; and in the step in which it starts the
\* publish goroutine it has already returned, the event not yet in the stream.
PublishStep ==
    \/ BagCardinality(pubTasks') < BagCardinality(pubTasks)
    \/ events' # events

C11_ResultIndependentOfPublication ==
    /\ [][PublishStep =>
              UNCHANGED <<result, pc, req, cust, dbCustomers, dbPayments, okRefs>>]_vars
    /\ [](\A p \in Procs :
              Done(p) /\ payRes[p] = "nil" =>
                  result[p] = Response(TRUE, "payment processed successfully", cust[p]))
    /\ [][\A p \in Procs :
              payRes[p] = "none" /\ payRes'[p] = "nil" =>
                  /\ pc'[p] = "done"
                  /\ events' = events
                  /\ pubTasks' = IF eventPublisher = "nil" THEN pubTasks
                                 ELSE pubTasks (+) SetToBag({PaymentProcessedEvent(p)})]_vars

\* A call has returned success while its event is still to be published.
C11_ReturnedBeforePublish ==
    \E p \in Procs :
        /\ Done(p) /\ payRes[p] = "nil" /\ Succeeded(p)
        /\ eventPublisher = "redis"
        /\ CopiesIn(PaymentProcessedEvent(p), pubTasks) > 0
        /\ \A i \in 1..Len(events) : events[i].ref # req[p].ref

\* ------------------------------------------------------------------ C12
\* A COMPLETE call whose customer id has no row and no cache entry never
\* enters the retry round, issues no conditional update, saves no payment
\* record and returns an error; no customer row, payment record or event of
\* that id ever exists.
UnknownCustomer(p) ==
    /\ req[p] # NoRequest
    /\ IsComplete(req[p])
    /\ req[p].cust \notin DOMAIN dbCustomers
    /\ cacheCustomers[req[p].cust] = NoCustomer

C12_UnknownCustomerFailsWithoutWrites ==
    /\ \A p \in Procs :
           UnknownCustomer(p) =>
               /\ phase[p] # "retry"
               /\ saves[p] = 0 /\ commits[p] = 0 /\ payRes[p] = "none"
               /\ cust[p] = NoCustomer
               /\ Done(p) => result[p] = ErrResult("ErrCustomerNotFound")
    /\ DOMAIN dbCustomers = Customers
    /\ \A i \in 1..Len(dbPayments) : dbPayments[i].cust \in Customers
    /\ \A e \in BagToSet(pubTasks) : e.cust \in Customers
    /\ \A id \in CustomerIDs \ Customers : cacheCustomers[id] = NoCustomer

\* A call for the unknown customer id has returned.
C12_UnknownCustomerReturned ==
    \E p \in Procs : UnknownCustomer(p) /\ Done(p) /\ result[p].kind = "error"

\* ------------------------------------------------------------------ C13
\* ApplyPayment with amount a > 0 on a customer whose balance b is >= 0 and
\* whose status is not COMPLETED returns nil and leaves balance max(0, b - a),
\* totalPaid raised by the whole of a, lastPaymentDate the payment's date,
\* status COMPLETED exactly when the new balance is 0 and otherwise the old
\* status, and id and version as they were.
C13_ApplyPaymentArithmetic ==
    [][\A p \in Procs :
          /\ pc[p] = "idle" /\ pc'[p] = "done"
          /\ req[p].amount > 0 /\ cust[p].bal >= 0 /\ cust[p].status # "COMPLETED"
          => /\ result'[p] = ErrResult("nil")
             /\ cust'[p].bal = IF cust[p].bal - req[p].amount > 0
                               THEN cust[p].bal - req[p].amount ELSE 0
             /\ cust'[p].paid = cust[p].paid + req[p].amount
             /\ cust'[p].last = req[p].date
             /\ cust'[p].status = "COMPLETED" <=> cust'[p].bal = 0
             /\ cust'[p].bal # 0 => cust'[p].status = cust[p].status
             /\ cust'[p].ver = cust[p].ver /\ cust'[p].id = cust[p].id]_vars

\* An overpayment was applied: the balance stopped at 0, the total did not.
C13_OverpaymentApplied ==
    \E p \in Procs :
        /\ Done(p) /\ result[p] = ErrResult("nil")
        /\ cust[p].bal = 0 /\ cust[p].status = "COMPLETED"
        /\ cust[p].paid > AssetValue
        /\ req[p].amount > AssetValue

\* ------------------------------------------------------------------ C14
\* The call of p carries COMPLETE and a reference no other call has carried,
\* and when it started the customer's row had status COMPLETED.
NewReferenceOnOwned(p) ==
    /\ req[p] # NoRequest /\ IsComplete(req[p])
    /\ ownedAtStart[p]
    /\ calls[p] = 1
    /\ \A q \in Procs \ {p} : req[q] = NoRequest \/ req[q].ref # req[p].ref

\* C14, as the specification states it: on a COMPLETED customer ApplyPayment
\* with any amount > 0 returns ErrAssetAlreadyOwned and changes no field, and a
\* ProcessPayment call with a new reference for a customer whose row is
\* COMPLETED commits no balance write, saves no payment record, starts no
\* event and returns an error.
C14_OwnedCustomerRejectsPayment ==
    /\ \A c \in {x \in CustomerStates : x.status = "COMPLETED"} :
           \A amount \in {a \in ApplyAmounts : a > 0} :
               ApplyPayment(c, amount, 1) = [err |-> "ErrAssetAlreadyOwned", c |-> c]
    /\ \A p \in Procs :
           NewReferenceOnOwned(p) =>
               /\ commits[p] = 0
               /\ payRes[p] = "none"
               /\ \A e \in BagToSet(pubTasks) : e.ref # req[p].ref
               /\ Done(p) => result[p].kind = "error"

\* C14, the state that refutes it: a call that started on a COMPLETED row with
\* a new reference committed a balance write and returned success.
C14_PaymentAcceptedOnOwned ==
    \E p \in Procs :
        /\ NewReferenceOnOwned(p) /\ ~raced[p]
        /\ Done(p) /\ Processed(p) /\ commits[p] = 1
        /\ dbCustomers[req[p].cust].status = "ACTIVE"

\* ------------------------------------------------------------------ C15
\* outstandingBalance is never negative: not in a row, not in the customer a
\* call holds, not in a cache entry nor in what a pending cache goroutine can
\* write, not in a response or an event, overpayments included.
C15_BalanceNeverNegative ==
    /\ \A id \in DOMAIN dbCustomers : dbCustomers[id].bal >= 0
    /\ \A id \in CustomerIDs :
           cacheCustomers[id] # NoCustomer => cacheCustomers[id].bal >= 0
    /\ \A t \in BagToSet(cacheTasks) : \A c \in t.vals : c.bal >= 0
    /\ \A p \in Procs :
           /\ cust[p] # NoCustomer => cust[p].bal >= 0
           /\ wrote[p] # NoCustomer => wrote[p].bal >= 0
           /\ result[p].kind = "response" => result[p].bal >= 0
    /\ \A e \in BagToSet(pubTasks) : e.bal >= 0

\* An overpayment committed: the row's balance is 0 and its total exceeds the
\* asset value.
C15_OverpaymentCommitted ==
    \E id \in DOMAIN dbCustomers :
        /\ dbCustomers[id].bal = 0
        /\ dbCustomers[id].paid > AssetValue
        /\ cacheCustomers[id] = dbCustomers[id]

\* ------------------------------------------------------------------ C16
\* A row of the customers table whose outstandingBalance is 0 has status
\* COMPLETED.
C16_ZeroBalanceIsCompleted ==
    \A id \in DOMAIN dbCustomers :
        dbCustomers[id].bal = 0 => dbCustomers[id].status = "COMPLETED"

\* A call's committed write brought the row's balance to 0.
C16_PaidOff ==
    \E p \in Procs :
        /\ commits[p] = 1 /\ wrote[p] # NoCustomer /\ wrote[p].bal = 0
        /\ dbCustomers[wrote[p].id].bal = 0
        /\ dbCustomers[wrote[p].id].ver = wrote[p].ver

\* ------------------------------------------------------------------ C17
\* C17, as the specification states it: once the durable row of a customer
\* has status COMPLETED, no step gives it another status, whatever snapshot
\* the writing call had read from the cache.
C17_CompletedIsAbsorbing ==
    [][\A id \in DOMAIN dbCustomers :
          dbCustomers[id].status = "COMPLETED" => dbCustomers'[id].status = "COMPLETED"]_vars

\* C17, the state that refutes it: a call committed the COMPLETED row and a
\* later version of the row is ACTIVE again.
C17_CompletedRowReopened ==
    \E p \in Procs :
        /\ commits[p] = 1 /\ wrote[p] # NoCustomer /\ wrote[p].status = "COMPLETED"
        /\ dbCustomers[wrote[p].id].status = "ACTIVE"
        /\ dbCustomers[wrote[p].id].ver > wrote[p].ver

\* ------------------------------------------------------------------ C18
\* A FindByID whose cache read misses or fails goes on to the SELECT; the
\* SELECT returns ErrCustomerNotFound exactly when the table has no row of that
\* id, and otherwise the customer it returns has every field of the row as it
\* is at that moment, the version included: the call goes on with that
\* customer (duplicate path) or with ApplyPayment's result on it.
C18_CacheMissReadsTheRow ==
    [][\A p \in Procs :
          /\ (pc[p] = "find_cache" /\ pc'[p] # "find_cache")
                 => \/ pc'[p] = "find_db" /\ cust'[p] = cust[p]
                    \/ cacheCustomers[req[p].cust] # NoCustomer
          /\ (pc[p] = "find_db" /\ pc'[p] # "find_db")
                 => IF req[p].cust \notin DOMAIN dbCustomers
                    THEN pc'[p] = "done" /\ result'[p] = ErrResult("ErrCustomerNotFound")
                    ELSE LET row == dbCustomers[req[p].cust]
                             a == ApplyPayment(row, req[p].amount, req[p].date)
                         IN  /\ result'[p] # ErrResult("ErrCustomerNotFound")
                             /\ cust'[p] = IF phase[p] # "dup" /\ a.err = "nil"
                                           THEN a.c ELSE row
                             /\ cust'[p].ver = row.ver]_vars

\* A retry's FindByID has read the row another call had written and the call
\* has applied its payment to it.
C18_RetryReadTheRow ==
    \E p \in Procs :
        /\ pc[p] = "save_del" /\ phase[p] = "retry"
        /\ \E t \in BagToSet(cacheTasks) : t.owner = p
        /\ cust[p].ver = dbCustomers[cust[p].id].ver
        /\ cust[p].ver > 1

\* ------------------------------------------------------------------ C19
\* The three store operations of customer Save, as steps of goroutine p.
SaveDeleteStep(p) == pc[p] = "save_del" /\ pc'[p] # "save_del"

SaveUpdateStep(p) == pc[p] = "save_upd" /\ pc'[p] # "save_upd"

SaveCacheStep(p) == pc[p] = "save_cache" /\ pc'[p] # "save_cache"

\* What Save does around the conditional update, whatever its DEL left in the
\* cache: the update follows the DEL and touches no cache entry; a conflict
\* ends Save there, with nothing written to the cache; the SET follows only a
\* committed update and writes, if anything, the row that update wrote.
SaveOrdering(p) ==
    /\ SaveDeleteStep(p) => pc'[p] = "save_upd" /\ dbCustomers' = dbCustomers
    /\ SaveUpdateStep(p) =>
           /\ cacheCustomers' = cacheCustomers
           /\ pc'[p] = "save_cache" <=> commits'[p] = commits[p] + 1
           /\ pc'[p] = "save_cache" =>
                  /\ cust'[p] = dbCustomers'[cust[p].id]
                  /\ cust'[p].ver = cust[p].ver + 1
    /\ SaveCacheStep(p) =>
           /\ commits[p] = 1 /\ cust[p] = wrote[p]
           /\ \/ cacheCustomers' = cacheCustomers
              \/ cacheCustomers' = [cacheCustomers EXCEPT ![cust[p].id] = wrote[p]]

\* C19, as the specification states it: when Save issues the conditional
\* update its DEL has left no cache entry for the customer, and the cache is
\* written again only after the update committed, with the post-write state,
\* and not at all when the update conflicts.
C19_InvalidateBeforeRepopulateAfter ==
    [][\A p \in Procs :
          /\ SaveOrdering(p)
          /\ SaveDeleteStep(p) => cacheCustomers'[cust[p].id] = NoCustomer]_vars

\* C19, amended: the DEL is issued before the update and either removes the
\* entry or, when Redis fails, leaves the entry as it was.
C19_InvalidateAttemptedBeforeRepopulateAfter ==
    [][\A p \in Procs :
          /\ SaveOrdering(p)
          /\ SaveDeleteStep(p) =>
                 \/ cacheCustomers'[cust[p].id] = NoCustomer
                 \/ cacheCustomers' = cacheCustomers]_vars

\* A Save whose first update conflicted has, in the retry, committed and put
\* the row it wrote in the cache.
C19_RepopulatedAfterCommit ==
    \E p \in Procs :
        /\ pc[p] = "pay_fast" /\ phase[p] = "retry"
        /\ saves[p] = 2 /\ commits[p] = 1
        /\ cacheCustomers[cust[p].id] = wrote[p]
        /\ wrote[p] = dbCustomers[cust[p].id]

\* ------------------------------------------------------------------ C20
\* No call is in flight and no cache goroutine is pending.
Quiescent ==
    /\ \A p \in Procs : ~InFlight(p)
    /\ cacheTasks = EmptyBag

\* C20, as the specification states it: once the Saves have committed and
\* every call and every cache goroutine that overlapped them has finished,
\* the customer's cache entry is absent or holds a version that is at least
\* the one the last committed Save wrote.
C20_NoPreWriteDataCached ==
    Quiescent =>
        \A id \in Customers :
            \/ cacheCustomers[id] = NoCustomer
            \/ cacheCustomers[id].ver >= dbCustomers[id].ver

\* C20, the state that refutes it: everything has finished, a call's Save
\* committed version 2, and the cache holds the row as it was before it.
C20_PreWriteDataCached ==
    /\ Quiescent
    /\ \E p \in Procs :
          /\ Done(p) /\ commits[p] = 1 /\ wrote[p].ver = 2
          /\ dbCustomers[wrote[p].id] = wrote[p]
          /\ cacheCustomers[wrote[p].id] = NewCustomer(wrote[p].id, AssetValue)

Acknowledges(i) == i \in streamGroup'.acked \ streamGroup.acked

\* C22: the consumer loop acknowledges a stream entry only after the handler
\* for it returned success: every acknowledgement is of an entry for which
\* handleMessage has just returned nil, which is a decodable payment.processed
\* event, and no entry whose handler errored, whose payload could not be
\* decoded or whose event type is unknown is acknowledged by that delivery.
C22_AckOnlyAfterHandlerSuccess ==
    /\ [][\A i \in 1..MaxEntries :
             Acknowledges(i)
             => /\ subscriber.pc = "ack" /\ i = Message
                /\ subscriber.returned[i] = "nil"
                /\ events[i].stream = "payment.processed"
                /\ events[i].data = "event"]_vars
    /\ [](\A i \in 1..MaxEntries :
             (streamGroup.deliveries[i] > 0 /\ i \notin subscriber.batch
              /\ subscriber.returned[i] # "nil")
             => i \notin streamGroup.acked /\ i \in streamGroup.pending)

\* One batch held an entry that was handled and acknowledged, an entry whose
\* handler failed and an entry that could not be decoded or had an unknown
\* type: the last two are left in the pending list.
C22_MixedBatchHandled ==
    \E i, j, k \in 1..MaxEntries :
        /\ i \in streamGroup.acked
        /\ subscriber.returned[j] = "handler error"
        /\ subscriber.returned[k] \in {"invalid event data format",
                                       "failed to unmarshal event",
                                       "unknown event type"}
        /\ {j, k} \subseteq streamGroup.pending
        /\ subscriber.pc = "read"

\* C23, as the specification states it: an entry whose handler returned an
\* error stays unacknowledged and is delivered again on a later poll, so that
\* with the loop running and a handler that eventually succeeds every such
\* entry is eventually handled successfully and acknowledged.
C23_FailedEntryEventuallyAcknowledged ==
    \A i \in 1..MaxEntries :
        (subscriber.returned[i] = "handler error") ~> (i \in streamGroup.acked)

\* An entry whose handler failed on its first delivery sits in the pending
\* list while the loop polls its stream again and gets nothing, and an entry
\* appended after it has been handled and acknowledged.
C23_FailedEntryStranded ==
    \E i, j \in 1..MaxEntries :
        /\ i < j
        /\ subscriber.returned[i] = "handler error"
        /\ streamGroup.deliveries[i] = 1
        /\ i \in streamGroup.pending
        /\ j \in streamGroup.acked
        /\ subscriber.pc = "read"
        /\ XReadGroupReply(events[i].stream) = {}

\* C24: GetCustomerPayments queries the payment repository only after the
\* customer lookup has succeeded. When FindByID fails it returns a nil list
\* and an error wrapping "failed to get customer" without calling
\* FindByCustomerID; when the payment query fails it returns a nil list and an
\* error wrapping "failed to get payments"; otherwise it returns exactly the
\* list the payment repository returned, in the same order, and no error.
C24_PaymentsOnlyAfterLookup ==
    /\ query.asked => query.lookup = "nil"
    /\ query.pc = "done" =>
         IF query.lookup # "nil"
         THEN /\ ~query.asked
              /\ query.payments = NilList
              /\ query.err = Wrap("failed to get customer", query.lookup)
         ELSE IF query.answerErr # "nil"
         THEN /\ query.payments = NilList
              /\ query.err = Wrap("failed to get payments", query.answerErr)
         ELSE /\ query.payments = query.answer
              /\ query.err = NoError

\* A query of the seeded customer returned two payments of equal date, the
\* later-inserted one first, just as the repository answered.
C24_ListReturnedAsAnswered ==
    /\ query.pc = "done" /\ query.err = NoError
    /\ ~query.payments.nil
    /\ Len(query.payments.items) = 2
    /\ query.payments = query.answer
    /\ \E i, j \in 1..Len(dbPayments) :
           /\ i < j
           /\ query.payments.items = <<dbPayments[j], dbPayments[i]>>

\* ------------------------------------------------------------------ C25
\* The customer goroutine p holds after FindByID returned it and ApplyPayment
\* ran on it: still at the version FindByID read.
AppliedAtReadVersion(p) ==
    (pc[p] \in {"find_cache", "find_db"} /\ pc'[p] = "save_del")
    => cust'[p].ver = IF pc[p] = "find_db" THEN dbCustomers[req[p].cust].ver
                      ELSE cacheCustomers[req[p].cust].ver

\* C25: a customer's durable version changes only through a successful
\* conditional write and by exactly +1 each time. ApplyPayment never changes
\* Version, a failed Save changes neither the in-memory nor the stored
\* version, and in every reachable state the stored version is the initial
\* version plus the number of committed conditional writes for the customer.
C25_VersionCountsCommittedWrites ==
    /\ [](\A id \in Customers :
             dbCustomers[id].ver
                 = NewCustomer(id, AssetValue).ver + BagCardinality(committedRefs))
    /\ [][\A id \in Customers :
             dbCustomers'[id].ver # dbCustomers[id].ver
             => /\ dbCustomers'[id].ver = dbCustomers[id].ver + 1
                /\ \E p \in Procs :
                       /\ SaveUpdateStep(p) /\ req[p].cust = id
                       /\ commits'[p] = commits[p] + 1
                       /\ cust[p].ver = dbCustomers[id].ver
                       /\ cust'[p].ver = dbCustomers'[id].ver]_vars
    /\ [][\A p \in Procs :
             /\ (SaveUpdateStep(p) /\ commits'[p] = commits[p])
                    => cust'[p] = cust[p] /\ dbCustomers' = dbCustomers
             /\ AppliedAtReadVersion(p)]_vars

\* One call has committed (the row is at the initial version + 1) and the
\* other call's Save has just failed on a version conflict: it still holds the
\* customer at the version it read and goes to its retry.
C25_CommitAndFailedSave ==
    \E p, q \in Procs :
        /\ p # q
        /\ commits[q] = 1
        /\ saves[p] = 1 /\ commits[p] = 0
        /\ phase[p] = "retry" /\ pc[p] = "find_cache"
        /\ cust[p].ver = NewCustomer(cust[p].id, AssetValue).ver
        /\ dbCustomers[cust[p].id].ver = cust[p].ver + 1

\* ------------------------------------------------------------------ C26
\* The Saves of p and of q both committed, p's first (v+1) and q's on top of
\* it (v+2), and both calls and every background cache task have finished.
BothCommitted(p, q) ==
    /\ Quiescent
    /\ p # q
    /\ commits[p] = 1 /\ commits[q] = 1
    /\ wrote[p].id = wrote[q].id
    /\ wrote[q].ver = wrote[p].ver + 1

\* C26, as the specification states it: when two Saves for the same customer
\* both commit (v+1, then v+2) and their cache writes race, then after both
\* Saves and all background cache tasks have finished the cache entry holds
\* the snapshot committed last (v+2), never the earlier one.
C26_CacheConvergesToLastCommit ==
    \A p, q \in Procs :
        BothCommitted(p, q) => cacheCustomers[wrote[q].id] = wrote[q]

\* C26, the state that refutes it: everything has finished, the row is the
\* one the second Save wrote, and the cache holds the snapshot of the first.
C26_EarlierSnapshotCached ==
    \E p, q \in Procs :
        /\ BothCommitted(p, q)
        /\ dbCustomers[wrote[q].id] = wrote[q]
        /\ cacheCustomers[wrote[p].id] = wrote[p]

\* ------------------------------------------------------------------ C27
\* The payment Saves of p and q, for the same reference, are both past the
\* fast-tier step and about to issue the durable INSERT.
BothAtInsert(p, q) ==
    /\ p # q
    /\ req[p].ref = req[q].ref
    /\ pc[p] = "pay_ins" /\ pc[q] = "pay_ins"

\* C27, as the specification states it: payment Save makes an atomic
\* insert-if-absent of the reference on the fast tier before the durable
\* insert, so of two concurrent Saves of the same reference exactly one wins
\* the fast tier and the loser returns DuplicateTransaction at once, without
\* attempting the durable insert: the two are never both at the insert.
C27_OneSaveWinsFastTier ==
    \A p, q \in Procs : ~BothAtInsert(p, q)

\* C27, the state that refutes it: two Saves of one reference have both
\* passed the fast-tier check, which wrote nothing (the key of the reference
\* does not exist), and both go on to the INSERT.
C27_BothSavesReachInsert ==
    \E p, q \in Procs :
        /\ BothAtInsert(p, q)
        /\ req[p].ref \notin fastRefs
        /\ commits[p] = 1 /\ commits[q] = 1

\* ------------------------------------------------------------------ C28
\* The two store operations of ExistsByTransactionReference, as steps of p.
ExistsFastStep(p) == pc[p] = "exists_fast" /\ pc'[p] # "exists_fast"

ExistsDbStep(p) == pc[p] = "exists_db" /\ pc'[p] # "exists_db"

\* The payments table holds a record for the reference of p's request.
Recorded(p) == \E i \in 1..Len(dbPayments) : dbPayments[i].ref = req[p].ref

\* C28: ExistsByTransactionReference consults the fast tier first and returns
\* true on a fast-tier hit (the call takes the duplicate path without a
\* query); on a fast-tier miss or error it goes to the durable store and
\* returns exactly whether that holds a record for the reference, never an
\* error and never a false negative; a durable hit starts an asynchronous
\* backfill of the fast tier, a durable miss starts none.
C28_ExistsFallsBackToDurable ==
    [][\A p \in Procs :
          /\ ExistsFastStep(p)
                => \/ /\ req[p].ref \in fastRefs
                      /\ pc'[p] = "find_cache" /\ phase'[p] = "dup"
                      /\ backfillTasks' = backfillTasks
                   \/ /\ pc'[p] = "exists_db" /\ phase'[p] = phase[p]
                      /\ result'[p] = result[p]
          /\ ExistsDbStep(p)
                => /\ pc'[p] = "find_cache" /\ result'[p] = result[p]
                   /\ phase'[p] = "dup" <=> Recorded(p)
                   /\ IF Recorded(p)
                      THEN CopiesIn(req[p].ref, backfillTasks')
                               > CopiesIn(req[p].ref, backfillTasks)
                      ELSE backfillTasks' = backfillTasks]_vars

\* Two calls for a recorded reference are on the duplicate path; the key of
\* the reference is in Redis and a backfill of it is pending, so at least one
\* of the two was sent on to the durable store and found the record there.
C28_FastTierErrorFellBack ==
    \E p, q \in Procs :
        /\ p # q
        /\ req[p].ref \in fastRefs /\ req[q].ref \in fastRefs
        /\ pc[p] = "find_cache" /\ phase[p] = "dup"
        /\ CopiesIn(req[p].ref, backfillTasks) > 0
        /\ pc[q] = "find_cache" /\ phase[q] = "dup"
        /\ calls[p] = 1 /\ calls[q] = 1

\* ------------------------------------------------------------------ C29
\* Goroutine p returns the duplicate response in this step.
DuplicateReturn(p) ==
    /\ phase[p] = "dup" /\ pc[p] # "done" /\ pc'[p] = "done"
    /\ result'[p].kind = "response"

\* C29, as the specification states it: on the duplicate path the
\* outstandingBalance and totalPaid of the response are the values of the
\* durable row at some moment between the start and the return of the call.
\* Stated for the calls during which no other call ran: the row did not change
\* between their start and their return, so the response carries the row's
\* values at the return.
C29_DuplicateAnswersDurableRow ==
    [][\A p \in Procs :
          (DuplicateReturn(p) /\ ~raced[p])
          => /\ result'[p].bal = dbCustomers[req[p].cust].bal
             /\ result'[p].paid = dbCustomers[req[p].cust].paid]_vars

\* C29, the state that refutes it: q's call committed its payment and
\* returned; p's call for the same reference started after that (a success
\* for the reference was on record at its start) and answered as a duplicate
\* with a balance that is not the one q wrote, which the row has held since.
C29_DuplicateAnsweredStaleBalance ==
    \E p, q \in Procs :
        /\ p # q
        /\ calls[p] = 1 /\ calls[q] = 1
        /\ Done(p) /\ Done(q)
        /\ req[p].ref = req[q].ref
        /\ priorOk[p] /\ ~raced[p]
        /\ Deduplicated(p)
        /\ commits[q] = 1 /\ dbCustomers[req[p].cust] = wrote[q]
        /\ result[p].bal # wrote[q].bal
        /\ result[p].paid # wrote[q].paid

\* ------------------------------------------------------------------ C30
\* Goroutine p starts the publish goroutine for event e in this step: it is
\* the step in which its payment record is inserted, after its balance write
\* committed, and e is the event of its request and of the customer it saved.
StartsPublish(p, e) ==
    /\ pc[p] = "pay_ins" /\ pc'[p] = "done"
    /\ IsComplete(req[p])
    /\ commits[p] = 1 /\ payRes'[p] = "nil"
    /\ dbPayments' = Append(dbPayments, NewPayment(req[p]))
    /\ Processed(p)'
    /\ e = PaymentProcessedEvent(p)
    /\ pubTasks' = pubTasks (+) SetToBag({e})

\* C30: a PaymentProcessed event is appended only by a ProcessPayment call
\* whose balance write and payment-record insert have both committed. A
\* publish goroutine is started only by the step that inserts the call's
\* payment record after its committed balance write, the stream grows only by
\* the event of such a goroutine, and so every event, appended or pending, is
\* of a recorded reference with a committed write: none comes from the
\* non-COMPLETE, duplicate, not-found, transform-failure, persist-failure or
\* payment-record-failure paths.
C30_EventOnlyAfterBothCommits ==
    /\ [][\A e \in BagToSet(pubTasks') :
             CopiesIn(e, pubTasks') > CopiesIn(e, pubTasks)
             => \E p \in Procs : StartsPublish(p, e)]_vars
    /\ [][events' # events
             => \E e \in BagToSet(pubTasks) :
                    /\ events' = Append(events, e)
                    /\ pubTasks' = pubTasks (-) SetToBag({e})]_vars
    /\ [](\A e \in BagToSet(pubTasks) \cup {events[i] : i \in 1..Len(events)} :
             /\ \E i \in 1..Len(dbPayments) : dbPayments[i].ref = e.ref
             /\ CopiesIn(e.ref, committedRefs) >= 1)

\* Two calls for one reference both committed a balance write; one inserted
\* the payment record and its event is in the stream, the other met the
\* duplicate record and published nothing.
C30_OneEventForTwoCommits ==
    \E p, q \in Procs :
        /\ Done(p) /\ Done(q)
        /\ commits[p] = 1 /\ commits[q] = 1
        /\ payRes[p] = "nil" /\ payRes[q] = "ErrDuplicateTransaction"
        /\ pubTasks = EmptyBag
        /\ Len(events) = 1 /\ events[1].ref = req[p].ref

\* ------------------------------------------------------------------ C31
\* p's call stopped between its committed balance write and its payment
\* record, and q's call carries the same reference.
RedeliveryAfterCrash(p, q) ==
    /\ p # q
    /\ result[p] = Crashed /\ commits[p] = 1
    /\ req[q].ref = req[p].ref /\ req[q].cust = req[p].cust

Unacknowledged(i) ==
    streamGroup.deliveries[i] > 0 /\ i \notin streamGroup.acked

\* C32, as the specification states it: after the cancellation signal Start
\* eventually returns; the entries of the batch already read have all been
\* handed to handleMessage by then; every entry read but not acknowledged is
\* still pending; and every such entry is delivered again later.
C32_ShutdownLosesNothing ==
    /\ (subscriber.ctx # "live") ~> (subscriber.pc = "stopped")
    /\ [](subscriber.pc = "stopped"
            => /\ subscriber.batch = {}
               /\ \A i \in 1..Len(events) :
                    /\ streamGroup.deliveries[i] > 0 => subscriber.returned[i] # "none"
                    /\ Unacknowledged(i) => i \in streamGroup.pending)
    /\ \A i \in 1..MaxEntries :
         (subscriber.pc = "stopped" /\ i <= Len(events) /\ Unacknowledged(i))
            ~> (streamGroup.deliveries[i] >= 2)

\* C32, the state that refutes it: Start has returned, an entry of the last
\* batch was handled without error but its XAck ran with the cancelled
\* context, so the entry is pending, delivered once, and no XREADGROUP ">"
\* of any worker will select it again.
C32_PendingAfterShutdownNeverReread ==
    \E i \in 1..Len(events) :
        /\ subscriber.pc = "stopped"
        /\ subscriber.returned[i] = "nil"
        /\ i \in streamGroup.pending
        /\ streamGroup.deliveries[i] = 1
        /\ \A eventType \in EventTypes : i \notin XReadGroupReply(eventType)

\* ------------------------------------------------------------------ C33
\* C33, as the specification states it: a call that returned an error has not
\* changed the customer's durable balance, totalPaid, status or version,
\* whichever step the error came from, the payment-record Save included.
C33_ErrorMeansNoDurableChange ==
    \A p \in Procs :
        (Done(p) /\ result[p].kind = "error") => commits[p] = 0

\* C33, the state that refutes it: the call returned the error of the
\* payment-record INSERT; the row is the one its balance write committed and
\* no record of its reference exists.
C33_ErrorAfterCommittedWrite ==
    \E p \in Procs :
        /\ Done(p) /\ result[p] = ErrResult("database error")
        /\ commits[p] = 1
        /\ dbCustomers[req[p].cust] = wrote[p]
        /\ wrote[p].paid = req[p].amount
        /\ ~Recorded(p)

\* ------------------------------------------------------------------ C34
\* The balance fields of two customer values agree.
SameBalance(a, b) == a.bal = b.bal /\ a.paid = b.paid /\ a.status = b.status

\* C34, as the specification states it: every cache entry is a committed
\* snapshot. An entry of version 1 has the fields the row was created with, an
\* entry of the row's current version has the row's fields, and no entry has
\* a version the row has not reached.
C34_CacheHoldsCommittedSnapshots ==
    \A id \in Customers :
        LET e == cacheCustomers[id] IN
        e # NoCustomer =>
            /\ e.ver <= dbCustomers[id].ver
            /\ e.ver = 1 => SameBalance(e, NewCustomer(id, AssetValue))
            /\ e.ver = dbCustomers[id].ver => SameBalance(e, dbCustomers[id])

\* C34, the state that refutes it: a call read the row at version 1 and
\* applied its payment to the struct it shares with the cache-fill goroutine;
\* both its UPDATE and that of its retry lost against another call's and it
\* returned the conflict; the cache holds version 1 with the payment applied,
\* a state no committed row ever had.
C34_UncommittedStateCached ==
    \E p \in Procs :
        /\ Done(p) /\ result[p] = ErrResult("ErrOptimisticLock")
        /\ commits[p] = 0
        /\ LET e == cacheCustomers[req[p].cust] IN
             /\ e # NoCustomer
             /\ e.ver = 1 /\ e.paid = req[p].amount
             /\ e.bal = AssetValue - req[p].amount

\* ------------------------------------------------------------------ C35
\* C35: the fast dedup tier never holds a false positive. Every reference in
\* the fast tier, and every reference a backfill goroutine is about to put
\* there, has a row in the payments table; and whenever the dedup check
\* (fast tier or COUNT) reports a reference as already processed, a payment
\* record of it is committed.
C35_FastTierHasNoFalsePositive ==
    /\ [](\A r \in fastRefs \cup BagToSet(backfillTasks) :
             \E i \in 1..Len(dbPayments) : dbPayments[i].ref = r)
    /\ [][\A p \in Procs :
             ((ExistsFastStep(p) \/ ExistsDbStep(p)) /\ phase'[p] = "dup")
                => Recorded(p)]_vars

\* Both references are in the fast tier, r2 put there by a backfill goroutine
\* of this run, and a call was answered as a duplicate from the fast tier.
C35_FastTierFilledAndHit ==
    /\ fastRefs = {"r1", "r2"}
    /\ Len(dbPayments) = 2
    /\ \E p \in Procs : pc[p] = "find_cache" /\ phase[p] = "dup"
                        /\ req[p].ref \in fastRefs

\* ------------------------------------------------------------------ C36
\* p's call is the only one of the behaviour, it has returned, and it carried
\* COMPLETE, a reference never processed and the id of a customer that was
\* ACTIVE when it started.
LoneCallWithNewReference(p) ==
    /\ Done(p) /\ TotalCalls = 1
    /\ IsComplete(req[p]) /\ req[p].cust \in Customers
    /\ ~priorOk[p] /\ ~ownedAtStart[p]

\* C36, as the specification states it: a call with a new reference on an
\* ACTIVE customer that runs alone always succeeds, even when the cache holds
\* a snapshot of an older version; the first Save may conflict, the retry
\* commits.
C36_LoneCallSucceedsOverStaleCache ==
    \A p \in Procs : LoneCallWithNewReference(p) => Processed(p)

\* C36, the state that refutes it: the lone call made two Save attempts, both
\* conflicted, and it returned the conflict; the cache still holds the
\* version-1 snapshot and the row is untouched at version 2.
C36_LoneCallConflictsTwice ==
    \E p \in Procs :
        /\ LoneCallWithNewReference(p)
        /\ result[p] = ErrResult("ErrOptimisticLock")
        /\ saves[p] = 2 /\ commits[p] = 0
        /\ cacheCustomers["c1"] = NewCustomer("c1", AssetValue)
        /\ dbCustomers["c1"] = PaidOnce
        /\ cacheTasks = EmptyBag

\* ------------------------------------------------------------------ C37
\* The PaymentProcessed events of reference r: appended to the stream, and
\* held by publish goroutines that have not run yet.
Published(r) == Cardinality({i \in 1..Len(events) : events[i].ref = r})

PublishPending(r) ==
    BagCardinality([e \in {x \in BagToSet(pubTasks) : x.ref = r} |-> pubTasks[e]])

\* C37: at most one PaymentProcessed event is published per
\* transactionReference under any interleaving of calls carrying it: counting
\* the events in the stream and the publish goroutines still to run, no
\* reference ever has more than one, and a publish goroutine is started only
\* by the call whose INSERT of the payment record succeeded.
C37_AtMostOneEventPerReference ==
    /\ [](\A r \in Refs : Published(r) + PublishPending(r) <= 1)
    /\ [][\A r \in Refs :
             (PublishPending(r))' > PublishPending(r)
                => \E p \in Procs :
                      /\ pc[p] = "pay_ins" /\ pc'[p] = "done" /\ req[p].ref = r
                      /\ payRes'[p] = "nil"
                      /\ Len(dbPayments') = Len(dbPayments) + 1]_vars

\* Two concurrent calls of one reference both reached the INSERT; one inserted
\* the record, the other got the duplicate key; both returned success and the
\* stream holds one event of the reference.
C37_TwoInsertsOneEvent ==
    \E p, q \in Procs :
        /\ p # q /\ Done(p) /\ Done(q)
        /\ req[p].ref = req[q].ref
        /\ payRes[p] = "nil" /\ payRes[q] = "ErrDuplicateTransaction"
        /\ commits[q] = 1 /\ fastRefs = {}
        /\ Succeeded(p) /\ Succeeded(q)
        /\ Published(req[p].ref) = 1 /\ pubTasks = EmptyBag

\* ------------------------------------------------------------------ C38
\* The asset value p's entity was created with.
AssetValueOf(p) == dbCustomers[cust[p].id].bal

\* C38: a customer created by NewCustomer and changed only by successful
\* ApplyPayment calls always has outstandingBalance = max(0, assetValue -
\* totalPaid), and status COMPLETED exactly when totalPaid >= assetValue.
C38_BalanceIsAssetMinusPaid ==
    \A p \in Procs :
        LET c == cust[p]
            rest == AssetValueOf(p) - c.paid
        IN  /\ c.bal = IF rest < 0 THEN 0 ELSE rest
            /\ c.status = "COMPLETED" <=> c.paid >= AssetValueOf(p)
            /\ c.status \in {"ACTIVE", "COMPLETED"}

\* After an instalment and an overpayment the entity is COMPLETED with more
\* paid than the asset value and balance 0, and a further ApplyPayment was
\* refused.
C38_OverpaidChain ==
    \E p \in Procs :
        /\ cust[p].paid > AssetValueOf(p)
        /\ cust[p].paid > req[p].amount
        /\ cust[p].bal = 0 /\ cust[p].status = "COMPLETED"
        /\ result[p] = ErrResult("ErrAssetAlreadyOwned")

\* ------------------------------------------------------------------ C39
\* p's UpdateBalance was the last write to the row.
LastUpdateBalance(p) ==
    /\ Done(p)
    /\ \A q \in Procs \ {p} : Done(q) => dbCustomers[req[p].cust].ver = cust[p].ver
                                            + (IF result[p].err = "nil" THEN 1 ELSE 0)

\* C39, as the specification states it: UpdateBalance(customerId, amount,
\* version) leaves the row as ApplyPayment(amount) followed by Save would for
\* the same version; the stored balance never goes below 0 on overpayment and
\* the status becomes COMPLETED when the balance reaches 0; with a stale
\* version it fails with the optimistic-lock conflict and changes nothing.
C39_UpdateBalanceEquivalentToSave ==
    \A p \in Procs :
        LastUpdateBalance(p) =>
            LET row == dbCustomers[req[p].cust] IN
            /\ row = wrote[p]
            /\ result[p].err = payRes[p]
            /\ row.bal >= 0
            /\ row.bal = 0 => row.status = "COMPLETED"
            /\ req[p].version # cust[p].ver
                 => result[p].err = "ErrOptimisticLock" /\ row = cust[p]

\* C39, the state that refutes it: an overpayment through UpdateBalance on an
\* ACTIVE row at the right version returned nil and left the balance below 0
\* with status ACTIVE, where ApplyPayment and Save leave 0 and COMPLETED.
C39_NegativeBalanceStored ==
    \E p \in Procs :
        /\ LastUpdateBalance(p)
        /\ result[p].err = "nil" /\ payRes[p] = "nil"
        /\ cust[p].status = "ACTIVE" /\ req[p].amount > cust[p].bal
        /\ dbCustomers[req[p].cust].bal < 0
        /\ dbCustomers[req[p].cust].status = "ACTIVE"
        /\ wrote[p].bal = 0 /\ wrote[p].status = "COMPLETED"

====
